---------------------------- MODULE Spec2Model ----------------------------
(***************************************************************************)
(* A model of the Figma MCP server tools (src/src/utils/logger.ts and      *)
(* src/src/mcp.ts): the download_figma_images handler with its two         *)
(* concurrently pending fetch-service operations, the descriptor walk, the *)
(* purpose classifier, the colour codec and the file-name sanitizer.       *)
(*                                                                         *)
(* JavaScript strings are sequences of one-character strings.  An optional *)
(* value is a sequence of length 0 (undefined) or 1 (the value).           *)
(***************************************************************************)
EXTENDS Integers, Sequences, FiniteSets, TLC

VARIABLES
    pc,           \* position of the download_figma_images handler
    copy,         \* which copy of the handler runs: "logger" or "mcp"
    requests,     \* the `nodes` argument of the invocation
    fillReqs,     \* the imageFills array passed to getImageFills
    renderReqs,   \* the renderRequests array passed to getImages
    fillP,        \* the promise fillDownloads
    renderP,      \* the promise renderDownloads
    allP,         \* the promise Promise.all([fillDownloads, renderDownloads])
    downloads,    \* the handler's local `downloads`
    files,        \* file names present under localPath
    result,       \* what the handler's promise settled with
    settled,      \* the order in which the two operations settled
    syncThrow,    \* the fetch-service call that threw synchronously, if any
    op,           \* the pure function applied last ("none": not yet)
    input,        \* the argument of a pure function
    output,       \* what the pure function returned
    calls,        \* the invocations of the other tools, in the order of their start
    fs,           \* the file system: working directory, .gitignore, directories
    events,       \* the starts and completions of the invocations, in order
    isHTTP,       \* Logger.isHTTP
    servers,      \* the isHTTP option of each server constructed, in order
    logged,       \* the lines written to the standard streams, in order
    clock,        \* the time of the process
    mcpService,   \* the loaded HTTP app: its McpService (server, configuration error) and app error
    transports,   \* the transports created by McpService.handleRequest, in order
    exchanges     \* the HTTP requests answered, each with its response, in order

exportVars == <<pc, copy, requests, fillReqs, renderReqs, fillP, renderP, allP,
                downloads, files, result, settled, syncThrow>>

pureVars == <<op, input, output>>

toolVars == <<calls, fs, events>>

loggerVars == <<isHTTP, servers, logged>>

appVars == <<mcpService, transports, exchanges>>

\* what the download_figma_images handler and the fetch service leave alone
nonExportVars == <<pureVars, toolVars, loggerVars, clock, appVars>>

\* what the pure functions leave alone
nonPureVars == <<exportVars, toolVars, loggerVars, clock, appVars>>

\* what the other tools leave alone
nonToolVars == <<exportVars, pureVars, loggerVars, clock, appVars>>

\* what the logger and createServer leave alone
nonLoggerVars == <<exportVars, pureVars, toolVars, clock, appVars>>

vars == <<exportVars, pureVars, toolVars, loggerVars, clock, appVars>>

----------------------------------------------------------------------------
(* Bounds of the model *)

MaxRequests == 3

----------------------------------------------------------------------------
(* Optional values and JavaScript strings *)

None == <<>>
Some(v) == <<v>>
IsSome(o) == Len(o) = 1
Get(o) == o[1]

SeqsUpTo(S, n) == UNION {[1..k -> S] : k \in 0..n}

\* String.prototype.endsWith
EndsWith(s, suf) ==
    /\ Len(s) >= Len(suf)
    /\ SubSeq(s, Len(s) - Len(suf) + 1, Len(s)) = suf

\* index of the first occurrence of character c in s, 0 when there is none
FirstIndexOf(s, c) ==
    IF \E i \in 1..Len(s) : s[i] = c
    THEN CHOOSE i \in 1..Len(s) : s[i] = c /\ \A j \in 1..(i - 1) : s[j] # c
    ELSE 0

\* String.prototype.replace(c, d) with a string pattern: the first occurrence only
ReplaceFirstChar(s, c, d) ==
    LET i == FirstIndexOf(s, c)
    IN  IF i = 0 THEN s ELSE [s EXCEPT ![i] = d]

\* ToBoolean of an optional string: undefined and "" are falsy
TruthyOptStr(o) == IsSome(o) /\ Get(o) # <<>>

\* String(b) of a boolean
BoolToString(b) == IF b THEN "true" ELSE "false"

DigitChars == <<"0", "1", "2", "3", "4", "5", "6", "7", "8", "9">>

RECURSIVE NatToChunks(_)
\* String(n) of a natural number, one chunk per decimal digit
NatToChunks(n) ==
    IF n < 10 THEN <<DigitChars[n + 1]>>
    ELSE NatToChunks(n \div 10) \o <<DigitChars[(n % 10) + 1]>>

RECURSIVE JoinChunks(_, _)
\* Array.prototype.join of an array of chunks
JoinChunks(s, sep) ==
    IF s = <<>> THEN <<>>
    ELSE IF Len(s) = 1 THEN <<s[1]>>
         ELSE <<s[1], sep>> \o JoinChunks(Tail(s), sep)

----------------------------------------------------------------------------
(* Tool results: the value a handler's promise settles with.  `text` is    *)
(* the text of content[0] as a sequence of chunks.                         *)

NoResult == [settled |-> "pending", isError |-> FALSE, text |-> <<>>]
Success(text) == [settled |-> "resolved", isError |-> FALSE, text |-> text]
Failure(text) == [settled |-> "resolved", isError |-> TRUE, text |-> text]
Rejected == [settled |-> "rejected", isError |-> FALSE, text |-> <<>>]

----------------------------------------------------------------------------
(* The export requests an invocation may carry.  The request at position k *)
(* has its own nodeId and fileName; its imageRef is absent, blank or set.  *)

Letters == <<"a", "b", "c", "d", "e", "f", "g", "h">>

NodeIdAt(k) == <<"1", IF k % 2 = 0 THEN "-" ELSE ":", DigitChars[k + 1]>>

FileNameAt(k) ==
    <<Letters[k], ".">> \o (IF k % 2 = 1 THEN <<"s", "v", "g">> ELSE <<"p", "n", "g">>)

ImageRefs == {None, Some(<<>>), Some(<<"r", "e", "f">>)}

RequestLists ==
    UNION {{[k \in 1..n |-> [nodeId |-> NodeIdAt(k), imageRef |-> refs[k],
                             fileName |-> FileNameAt(k)]] :
              refs \in [1..n -> ImageRefs]} : n \in 0..MaxRequests}

----------------------------------------------------------------------------
(* download_figma_images: the synchronous part of the handler *)

HasImageRef(req) == TruthyOptStr(req.imageRef)
NoImageRef(req) == ~TruthyOptStr(req.imageRef)

\* a filter that keeps every request whose imageRef is defined, blank or not
HasDefinedImageRef(req) == IsSome(req.imageRef)
ImageFillsDefined(nodes) == SelectSeq(nodes, HasDefinedImageRef)

\* nodes.filter(({ imageRef }) => !!imageRef)
ImageFills(nodes) == SelectSeq(nodes, HasImageRef)

\* the nodeId of a render request: kept in logger.ts, its first "-" replaced
\* by ":" in mcp.ts
RenderNodeId(c, nodeId) ==
    IF c = "mcp" /\ FirstIndexOf(nodeId, "-") # 0
    THEN ReplaceFirstChar(nodeId, "-", ":")
    ELSE nodeId

\* one element of nodes.filter(...).map(...)
RenderRequest(c, req) ==
    [nodeId |-> RenderNodeId(c, req.nodeId),
     fileName |-> req.fileName,
     fileType |-> IF EndsWith(req.fileName, <<".", "s", "v", "g">>) THEN "svg" ELSE "png"]

\* nodes.filter(({ imageRef }) => !imageRef).map(...)
RenderRequests(c, nodes) ==
    LET kept == SelectSeq(nodes, NoImageRef)
    IN  [i \in 1..Len(kept) |-> RenderRequest(c, kept[i])]

----------------------------------------------------------------------------
(* Promises.  A fetch-service promise carries the outcomes produced so     *)
(* far; Promise.all keeps one slot per input promise.                      *)

NoPromise == [state |-> "none", out |-> <<>>]
Pending == [state |-> "pending", out |-> <<>>]

NoAll == [state |-> "none", values |-> <<None, None>>, remaining |-> 0]
NewAll == [state |-> "pending", values |-> <<None, None>>, remaining |-> 2]

\* a Promise.all that stores the values in the order of completion
AllOnFulfilPush(all, i, value) ==
    IF all.state # "pending" THEN all
    ELSE LET slot == IF all.remaining = 2 THEN 1 ELSE 2
             vals == [all.values EXCEPT ![slot] = Some(value)]
             left == all.remaining - 1
         IN  [state |-> IF left = 0 THEN "fulfilled" ELSE "pending",
              values |-> vals, remaining |-> left]

\* Promise.all's reaction to the fulfilment of its input promise at index i
AllOnFulfil(all, i, value) ==
    IF all.state # "pending" THEN all
    ELSE LET vals == [all.values EXCEPT ![i] = Some(value)]
             left == all.remaining - 1
         IN  [state |-> IF left = 0 THEN "fulfilled" ELSE "pending",
              values |-> vals, remaining |-> left]

\* Promise.all's reaction to the rejection of one of its input promises
AllOnReject(all) ==
    IF all.state # "pending" THEN all ELSE [all EXCEPT !.state = "rejected"]

\* Array.prototype.find with the callback (success) => !success: the first
\* falsy element, or undefined
FindFailed(arr) ==
    IF \E i \in 1..Len(arr) : ~arr[i]
    THEN Some(arr[CHOOSE i \in 1..Len(arr) : ~arr[i] /\ \A j \in 1..(i - 1) : arr[j]])
    ELSE None

\* ToBoolean of an optional boolean: undefined and false are falsy
TruthyOptBool(o) == IsSome(o) /\ Get(o)

\* const saveSuccess = !downloads.find((success) => !success)
SaveSuccess(arr) == ~TruthyOptBool(FindFailed(arr))

\* the text of the handler's success shape
DownloadText(arr) ==
    IF SaveSuccess(arr)
    THEN <<"Success, ">> \o NatToChunks(Len(arr)) \o <<" images downloaded: ">>
         \o JoinChunks([i \in 1..Len(arr) |-> BoolToString(arr[i])], ", ")
    ELSE <<"Failed">>

\* a catch block that rethrows
DownloadCatchRethrow == Rejected

\* the handler's catch block
DownloadCatch == Failure(<<"Error downloading images: ", "error">>)

\* .then(([f, r]) => [...f, ...r])
MergeDownloads(values) == Get(values[1]) \o Get(values[2])

----------------------------------------------------------------------------
(* download_figma_images: the handler and the two fetch-service operations *)

ExportInit ==
    /\ pc = "idle"
    /\ copy = "logger"
    /\ requests = <<>>
    /\ fillReqs = <<>>
    /\ renderReqs = <<>>
    /\ fillP = NoPromise
    /\ renderP = NoPromise
    /\ allP = NoAll
    /\ downloads = <<>>
    /\ files = {}
    /\ result = NoResult
    /\ settled = <<>>
    /\ syncThrow = "none"

\* The handler from its call to the await of Promise.all.  throws names the
\* fetch-service call that throws synchronously ("none": both return a promise).
DownloadInvoke(c, reqs, throws) ==
    /\ pc = "idle"
    /\ copy' = c
    /\ requests' = reqs
    /\ fillReqs' = ImageFills(reqs)
    /\ syncThrow' = throws
    /\ IF throws = "getImageFills"
       THEN /\ result' = DownloadCatch
            /\ pc' = "done"
            /\ UNCHANGED <<renderReqs, fillP, renderP, allP>>
       ELSE /\ fillP' = Pending
            /\ renderReqs' = RenderRequests(c, reqs)
            /\ IF throws = "getImages"
               THEN /\ result' = DownloadCatch
                    /\ pc' = "done"
                    /\ UNCHANGED <<renderP, allP>>
               ELSE /\ renderP' = Pending
                    /\ allP' = NewAll
                    /\ pc' = "await"
                    /\ UNCHANGED result
    /\ UNCHANGED <<downloads, files, settled>>
    /\ UNCHANGED nonExportVars

\* The handler after the await: the .then callback and the return, or the
\* catch block; all is Promise.all's promise after the reaction that just ran.
DownloadResume(all) ==
    IF pc = "await" /\ all.state = "fulfilled"
    THEN /\ downloads' = MergeDownloads(all.values)
         /\ result' = Success(DownloadText(MergeDownloads(all.values)))
         /\ pc' = "done"
    ELSE IF pc = "await" /\ all.state = "rejected"
         THEN /\ result' = DownloadCatch
              /\ pc' = "done"
              /\ UNCHANGED downloads
         ELSE UNCHANGED <<pc, downloads, result>>

\* getImageFills saves, or fails to save, its next item
FillItem(ok) ==
    /\ fillP.state = "pending"
    /\ Len(fillP.out) < Len(fillReqs)
    /\ fillP' = [fillP EXCEPT !.out = Append(@, ok)]
    /\ files' = IF ok THEN files \cup {fillReqs[Len(fillP.out) + 1].fileName} ELSE files
    /\ UNCHANGED <<pc, copy, requests, fillReqs, renderReqs, renderP, allP, downloads,
                   result, settled, syncThrow>>
    /\ UNCHANGED nonExportVars

\* getImages saves, or fails to save, its next item
RenderItem(ok) ==
    /\ renderP.state = "pending"
    /\ Len(renderP.out) < Len(renderReqs)
    /\ renderP' = [renderP EXCEPT !.out = Append(@, ok)]
    /\ files' = IF ok THEN files \cup {renderReqs[Len(renderP.out) + 1].fileName} ELSE files
    /\ UNCHANGED <<pc, copy, requests, fillReqs, renderReqs, fillP, allP, downloads,
                   result, settled, syncThrow>>
    /\ UNCHANGED nonExportVars

\* getImageFills resolves with one outcome per item
FillFulfil ==
    /\ fillP.state = "pending"
    /\ Len(fillP.out) = Len(fillReqs)
    /\ fillP' = [fillP EXCEPT !.state = "fulfilled"]
    /\ settled' = Append(settled, "fill")
    /\ allP' = AllOnFulfil(allP, 1, fillP.out)
    /\ DownloadResume(allP')
    /\ UNCHANGED <<copy, requests, fillReqs, renderReqs, renderP, files, syncThrow>>
    /\ UNCHANGED nonExportVars

\* getImages resolves with one outcome per item
RenderFulfil ==
    /\ renderP.state = "pending"
    /\ Len(renderP.out) = Len(renderReqs)
    /\ renderP' = [renderP EXCEPT !.state = "fulfilled"]
    /\ settled' = Append(settled, "render")
    /\ allP' = AllOnFulfil(allP, 2, renderP.out)
    /\ DownloadResume(allP')
    /\ UNCHANGED <<copy, requests, fillReqs, renderReqs, fillP, files, syncThrow>>
    /\ UNCHANGED nonExportVars

\* getImageFills rejects, whatever it has saved so far
FillReject ==
    /\ fillP.state = "pending"
    /\ fillP' = [fillP EXCEPT !.state = "rejected"]
    /\ settled' = Append(settled, "fill")
    /\ allP' = AllOnReject(allP)
    /\ DownloadResume(allP')
    /\ UNCHANGED <<copy, requests, fillReqs, renderReqs, renderP, files, syncThrow>>
    /\ UNCHANGED nonExportVars

\* getImages rejects, whatever it has saved so far
RenderReject ==
    /\ renderP.state = "pending"
    /\ renderP' = [renderP EXCEPT !.state = "rejected"]
    /\ settled' = Append(settled, "render")
    /\ allP' = AllOnReject(allP)
    /\ DownloadResume(allP')
    /\ UNCHANGED <<copy, requests, fillReqs, renderReqs, fillP, files, syncThrow>>
    /\ UNCHANGED nonExportVars

\* the file system before any tool has run: an empty working directory
\* without .gitignore, and only the root directory
EmptyFs == [files |-> {}, gitignore |-> None, dirs |-> {<<>>}, pathFiles |-> {}]

ToolsIdle ==
    /\ calls = <<>>
    /\ fs = EmptyFs
    /\ events = <<>>

\* the logger before any server is constructed: isHTTP: false
LoggerIdle ==
    /\ isHTTP = FALSE
    /\ servers = <<>>
    /\ logged = <<>>

\* the process at its start, the HTTP app not loaded
AppIdle ==
    /\ clock = 0
    /\ mcpService = [mcpServer |-> FALSE, configError |-> FALSE,
                     appError |-> FALSE, loaded |-> FALSE, credential |-> FALSE]
    /\ transports = <<>>
    /\ exchanges = <<>>

PureIdle ==
    /\ op = "none"
    /\ input = <<>>
    /\ output = <<>>

Init == ExportInit /\ PureIdle /\ ToolsIdle /\ LoggerIdle /\ AppIdle

Next ==
    \/ \E c \in {"logger", "mcp"}, reqs \in RequestLists,
          throws \in {"none", "getImageFills", "getImages"} :
            DownloadInvoke(c, reqs, throws)
    \/ \E ok \in BOOLEAN : FillItem(ok)
    \/ \E ok \in BOOLEAN : RenderItem(ok)
    \/ FillFulfil
    \/ RenderFulfil
    \/ FillReject
    \/ RenderReject

Spec == Init /\ [][Next]_vars

----------------------------------------------------------------------------
(* Claims about download_figma_images *)

Range(s) == {s[i] : i \in 1..Len(s)}
FileNames(reqs) == [i \in 1..Len(reqs) |-> reqs[i].fileName]
PositionOf(name) == CHOOSE k \in 1..Len(requests) : requests[k].fileName = name
KeepsOrder(names) ==
    \A i, j \in 1..Len(names) : i < j => PositionOf(names[i]) < PositionOf(names[j])

Partitioned == pc # "idle" /\ syncThrow # "getImageFills"
Returned == pc = "done" /\ allP.state = "fulfilled"
SomeThrow ==
    \/ syncThrow # "none"
    \/ fillP.state = "rejected"
    \/ renderP.state = "rejected"

\* C1: when neither operation throws, the handler reports 'Success, ...' if
\* and only if every item outcome of the merged list is a success, and
\* 'Failed' as soon as one item outcome is a failure.
C1_AggregateIsConjunction ==
    Returned =>
        /\ ~result.isError
        /\ (result.text[1] = "Success, ") <=> (\A i \in 1..Len(downloads) : downloads[i])
        /\ (result.text = <<"Failed">>) <=> (\E i \in 1..Len(downloads) : ~downloads[i])

\* C2 as stated: a request is in fillRequests if and only if its imageRef is
\* present, otherwise in renderRequests.
C2_FillIffImageRefPresent ==
    Partitioned =>
        \A k \in 1..Len(requests) :
            /\ IsSome(requests[k].imageRef)
                  <=> requests[k].fileName \in Range(FileNames(fillReqs))
            /\ ~IsSome(requests[k].imageRef)
                  <=> requests[k].fileName \in Range(FileNames(renderReqs))

\* C2 amended: a request is in fillRequests if and only if its imageRef is
\* present and not the empty string, otherwise in renderRequests; no request
\* is dropped or duplicated, the sizes add up, and each partition keeps the
\* relative order of the input.
C2_FillIffImageRefNonEmpty ==
    Partitioned =>
        /\ \A k \in 1..Len(requests) :
              LET set == IsSome(requests[k].imageRef) /\ Len(Get(requests[k].imageRef)) > 0
                  name == requests[k].fileName
              IN  /\ set <=> name \in Range(FileNames(fillReqs))
                  /\ ~set <=> name \in Range(FileNames(renderReqs))
        /\ Len(fillReqs) + Len(renderReqs) = Len(requests)
        /\ Range(FileNames(fillReqs)) \cup Range(FileNames(renderReqs))
              = Range(FileNames(requests))
        /\ KeepsOrder(FileNames(fillReqs))
        /\ KeepsOrder(FileNames(renderReqs))

\* a blank imageRef between a set one and an absent one, and set ones on
\* both sides of a render request
C2_Witness ==
    /\ Partitioned
    /\ Len(requests) = 3
    /\ requests[1].imageRef = Some(<<"r", "e", "f">>)
    /\ requests[2].imageRef = Some(<<>>)
    /\ requests[3].imageRef = Some(<<"r", "e", "f">>)
    /\ Len(fillReqs) = 2
    /\ Len(renderReqs) = 1

\* C3: the merged list is the outcomes getImageFills returned followed by
\* the outcomes getImages returned, whichever operation completes first.
C3_MergeIsFillsThenRenders ==
    Returned => downloads = fillP.out \o renderP.out

\* getImages completed before getImageFills and the two lists differ
C3_Witness ==
    /\ Returned
    /\ settled = <<"render", "fill">>
    /\ fillP.out = <<TRUE>>
    /\ renderP.out = <<FALSE, TRUE>>

\* C4: when getImageFills or getImages throws or rejects, the handler
\* resolves with the failure shape carrying the error text, never the
\* 'Success' or 'Failed' text, and no file already written is removed.
C4_ThrowYieldsErrorShape ==
    /\ [](SomeThrow =>
            /\ pc = "done"
            /\ result.settled = "resolved"
            /\ result.isError
            /\ result.text[1] = "Error downloading images: ")
    /\ [][files \subseteq files']_vars

\* getImages rejected after getImageFills had saved a file
C4_Witness ==
    /\ renderP.state = "rejected"
    /\ fillP.state = "fulfilled"
    /\ fillP.out = <<TRUE>>
    /\ FileNameAt(1) \in files
    /\ pc = "done"
    /\ result.isError


----------------------------------------------------------------------------
(* String.prototype.toLowerCase and String.prototype.includes *)

UpperChars == <<"A", "B", "C", "D", "E", "F", "G", "H", "I", "J", "K", "L", "M", "N", "O", "P", "Q", "R", "S", "T", "U", "V", "W", "X", "Y", "Z">>
LowerChars == <<"a", "b", "c", "d", "e", "f", "g", "h", "i", "j", "k", "l", "m", "n", "o", "p", "q", "r", "s", "t", "u", "v", "w", "x", "y", "z">>

LowerChar(c) ==
    IF \E i \in 1..Len(UpperChars) : UpperChars[i] = c
    THEN LowerChars[CHOOSE i \in 1..Len(UpperChars) : UpperChars[i] = c]
    ELSE c

ToLowerCase(s) == [i \in 1..Len(s) |-> LowerChar(s[i])]

Includes(s, sub) ==
    \E i \in 0..(Len(s) - Len(sub)) : SubSeq(s, i + 1, i + Len(sub)) = sub

----------------------------------------------------------------------------
(* inferElementPurpose: the copy of generateDetailedVisualDescription and  *)
(* the copy of the generate_technical_specification handler.  A node is a  *)
(* record with an optional name and a type; a label is a sequence of       *)
(* chunks.                                                                 *)

TypeTEXT == <<"T", "E", "X", "T">>
TypeRECTANGLE == <<"R", "E", "C", "T", "A", "N", "G", "L", "E">>
TypeFRAME == <<"F", "R", "A", "M", "E">>
TypeINSTANCE == <<"I", "N", "S", "T", "A", "N", "C", "E">>
TypeVECTOR == <<"V", "E", "C", "T", "O", "R">>
TypeGROUP == <<"G", "R", "O", "U", "P">>

\* (node.name || "").toLowerCase()
LowerName(node) ==
    ToLowerCase(IF IsSome(node.name) /\ Get(node.name) # <<>> THEN Get(node.name) ELSE <<>>)

\* a classifier that looks at the name keywords before the node type
InferElementPurposeNameFirst(node) ==
    LET name == LowerName(node)
        type == node.type
    IN  IF Includes(name, <<"i", "c", "o", "n">>) THEN <<"Icon">>
        ELSE IF Includes(name, <<"i", "m", "a", "g", "e">>) THEN <<"Image">>
        ELSE IF Includes(name, <<"i", "n", "p", "u", "t">>) THEN <<"Input field">>
        ELSE IF type = TypeTEXT THEN <<"Text element">>
        ELSE IF type = TypeRECTANGLE /\ Includes(name, <<"b", "u", "t", "t", "o", "n">>) THEN <<"Button">>
        ELSE IF type = TypeRECTANGLE /\ Includes(name, <<"c", "a", "r", "d">>) THEN <<"Card or container">>
        ELSE IF type = TypeFRAME /\ Includes(name, <<"h", "e", "a", "d", "e", "r">>) THEN <<"Header">>
        ELSE IF type = TypeFRAME /\ Includes(name, <<"f", "o", "o", "t", "e", "r">>) THEN <<"Footer">>
        ELSE IF type = TypeFRAME /\ Includes(name, <<"n", "a", "v">>) THEN <<"Navigation">>
        ELSE IF type = TypeINSTANCE THEN <<"Reusable component">>
        ELSE ToLowerCase(type) \o <<" element">>

\* inferElementPurpose of generateDetailedVisualDescription
InferElementPurpose(node) ==
    LET name == LowerName(node)
        type == node.type
    IN  IF type = TypeTEXT THEN <<"Text element">>
        ELSE IF type = TypeRECTANGLE /\ Includes(name, <<"b", "u", "t", "t", "o", "n">>) THEN <<"Button">>
        ELSE IF type = TypeRECTANGLE /\ Includes(name, <<"c", "a", "r", "d">>) THEN <<"Card or container">>
        ELSE IF type = TypeFRAME /\ Includes(name, <<"h", "e", "a", "d", "e", "r">>) THEN <<"Header">>
        ELSE IF type = TypeFRAME /\ Includes(name, <<"f", "o", "o", "t", "e", "r">>) THEN <<"Footer">>
        ELSE IF type = TypeFRAME /\ Includes(name, <<"n", "a", "v">>) THEN <<"Navigation">>
        ELSE IF type = TypeINSTANCE THEN <<"Reusable component">>
        ELSE IF Includes(name, <<"i", "c", "o", "n">>) THEN <<"Icon">>
        ELSE IF Includes(name, <<"i", "m", "a", "g", "e">>) THEN <<"Image">>
        ELSE IF Includes(name, <<"i", "n", "p", "u", "t">>) THEN <<"Input field">>
        ELSE ToLowerCase(type) \o <<" element">>

\* inferElementPurpose of the generate_technical_specification handler
InferElementPurposeSpec(node) ==
    LET name == LowerName(node)
        type == node.type
    IN  IF type = TypeTEXT THEN <<"Text element">>
        ELSE IF type = TypeRECTANGLE /\ Includes(name, <<"b", "u", "t", "t", "o", "n">>) THEN <<"Button component">>
        ELSE IF type = TypeRECTANGLE /\ Includes(name, <<"c", "a", "r", "d">>)
             THEN <<"Card or container component">>
        ELSE IF type = TypeFRAME /\ Includes(name, <<"h", "e", "a", "d", "e", "r">>) THEN <<"Header section">>
        ELSE IF type = TypeFRAME /\ Includes(name, <<"f", "o", "o", "t", "e", "r">>) THEN <<"Footer section">>
        ELSE IF type = TypeFRAME /\ Includes(name, <<"n", "a", "v">>) THEN <<"Navigation component">>
        ELSE IF type = TypeINSTANCE THEN <<"Reusable component instance">>
        ELSE IF Includes(name, <<"i", "c", "o", "n">>) THEN <<"Icon element">>
        ELSE IF Includes(name, <<"i", "m", "a", "g", "e">>) THEN <<"Image asset">>
        ELSE IF Includes(name, <<"i", "n", "p", "u", "t">>) THEN <<"Input field component">>
        ELSE IF type = TypeFRAME THEN <<"Layout container">>
        ELSE ToLowerCase(type) \o <<" component">>

----------------------------------------------------------------------------
(* The classifier applied to every (type, name) of a bounded set: names    *)
(* are made of at most MaxWords words, in mixed case.                      *)

MaxWords == 2

NodeTypes == {TypeTEXT, TypeRECTANGLE, TypeFRAME, TypeINSTANCE, TypeVECTOR, TypeGROUP}

Words == {<<"L", "o", "g", "i", "n", " ">>, <<"B", "u", "t", "t", "o", "n">>, <<"C", "A", "R", "D">>, <<"h", "e", "a", "d", "e", "r">>, <<"F", "o", "o", "t", "e", "r">>, <<"n", "a", "v">>, <<"I", "c", "o", "n">>,
          <<"i", "m", "a", "g", "e">>, <<"I", "N", "P", "U", "T">>}

RECURSIVE Phrases(_)
Phrases(n) ==
    IF n = 0 THEN {<<>>}
    ELSE Phrases(n - 1) \cup {p \o w : p \in Phrases(n - 1), w \in Words}

PurposeInputs ==
    [type : NodeTypes, name : {None} \cup {Some(p) : p \in Phrases(MaxWords)}]

PurposeInit ==
    /\ ExportInit
    /\ ToolsIdle
    /\ LoggerIdle
    /\ AppIdle
    /\ op = "none"
    /\ input \in PurposeInputs
    /\ output = <<>>

DescriptorPurpose ==
    /\ op = "none"
    /\ op' = "descriptor"
    /\ output' = InferElementPurpose(input)
    /\ UNCHANGED <<input, nonPureVars>>

TechSpecPurpose ==
    /\ op = "none"
    /\ op' = "techspec"
    /\ output' = InferElementPurposeSpec(input)
    /\ UNCHANGED <<input, nonPureVars>>

PurposeNext == DescriptorPurpose \/ TechSpecPurpose

SpecPurpose == PurposeInit /\ [][PurposeNext]_vars

----------------------------------------------------------------------------
(* Claims about inferElementPurpose: the ordered rule list of section 4.2  *)

\* keyword kw is a case-insensitive substring of the optional name
NameHas(name, kw) ==
    /\ IsSome(name)
    /\ \E i \in 0..(Len(Get(name)) - Len(kw)) :
          \A j \in 1..Len(kw) : LowerChar(Get(name)[i + j]) = kw[j]

RuleMatches(k, node) ==
    CASE k = 1 -> node.type = TypeTEXT
      [] k = 2 -> node.type = TypeRECTANGLE /\ NameHas(node.name, <<"b", "u", "t", "t", "o", "n">>)
      [] k = 3 -> node.type = TypeRECTANGLE /\ NameHas(node.name, <<"c", "a", "r", "d">>)
      [] k = 4 -> node.type = TypeFRAME /\ (\/ NameHas(node.name, <<"h", "e", "a", "d", "e", "r">>)
                                        \/ NameHas(node.name, <<"f", "o", "o", "t", "e", "r">>)
                                        \/ NameHas(node.name, <<"n", "a", "v">>))
      [] k = 5 -> node.type = TypeINSTANCE
      [] k = 6 -> \/ NameHas(node.name, <<"i", "c", "o", "n">>)
                  \/ NameHas(node.name, <<"i", "m", "a", "g", "e">>)
                  \/ NameHas(node.name, <<"i", "n", "p", "u", "t">>)
      [] k = 7 -> TRUE

FirstRule(node) ==
    CHOOSE k \in 1..7 : RuleMatches(k, node) /\ \A j \in 1..(k - 1) : ~RuleMatches(j, node)

\* a label never contains an upper-case letter after lowercase(type)
Fallback(node, suffix) ==
    [i \in 1..Len(node.type) |-> LowerChar(node.type[i])] \o <<suffix>>

RuleLabel(which, k, node) ==
    LET d == which = "descriptor"
    IN  CASE k = 1 -> <<"Text element">>
          [] k = 2 -> IF d THEN <<"Button">> ELSE <<"Button component">>
          [] k = 3 -> IF d THEN <<"Card or container">>
                      ELSE <<"Card or container component">>
          [] k = 4 -> IF NameHas(node.name, <<"h", "e", "a", "d", "e", "r">>)
                      THEN (IF d THEN <<"Header">> ELSE <<"Header section">>)
                      ELSE IF NameHas(node.name, <<"f", "o", "o", "t", "e", "r">>)
                           THEN (IF d THEN <<"Footer">> ELSE <<"Footer section">>)
                           ELSE (IF d THEN <<"Navigation">> ELSE <<"Navigation component">>)
          [] k = 5 -> IF d THEN <<"Reusable component">>
                      ELSE <<"Reusable component instance">>
          [] k = 6 -> IF NameHas(node.name, <<"i", "c", "o", "n">>)
                      THEN (IF d THEN <<"Icon">> ELSE <<"Icon element">>)
                      ELSE IF NameHas(node.name, <<"i", "m", "a", "g", "e">>)
                           THEN (IF d THEN <<"Image">> ELSE <<"Image asset">>)
                           ELSE (IF d THEN <<"Input field">> ELSE <<"Input field component">>)
          [] k = 7 -> Fallback(node, IF d THEN " element" ELSE " component")

\* C7 as stated: each copy of inferElementPurpose returns the label of the
\* first matching rule of the list 1..7, the fallback lowercase(type) +
\* suffix whenever none of the rules 1-6 matches.
C7_FirstMatchingRule ==
    op # "none" => output = RuleLabel(op, FirstRule(input), input)

\* C7 amended: the copy of generateDetailedVisualDescription returns the
\* label of the first matching rule of the list 1..7; the copy of
\* generate_technical_specification does too, except that a FRAME node
\* matching none of the rules 1-6 yields 'Layout container' instead of the
\* fallback.  A TEXT node always yields 'Text element'.
C7_FirstMatchingRuleOrLayoutContainer ==
    op # "none" =>
        /\ output = IF op = "techspec" /\ FirstRule(input) = 7 /\ input.type = TypeFRAME
                    THEN <<"Layout container">>
                    ELSE RuleLabel(op, FirstRule(input), input)
        /\ input.type = TypeTEXT => output = <<"Text element">>

\* a TEXT node named 'Login Button' is a text element
C7_Witness ==
    /\ op = "descriptor"
    /\ input = [type |-> TypeTEXT, name |-> Some(<<"L", "o", "g", "i", "n", " ", "B", "u", "t", "t", "o", "n">>)]
    /\ output = <<"Text element">>


----------------------------------------------------------------------------
(* rgbToHex.  A channel value in [0,1] is the fraction n / ChannelDen,     *)
(* given by its numerator n; a colour is an optional record of channels.   *)

ChannelDen == 20

HexChars == <<"0", "1", "2", "3", "4", "5", "6", "7", "8", "9", "a", "b", "c", "d", "e", "f">>

RECURSIVE ToString16(_)
\* Number.prototype.toString(16) of a natural number
ToString16(n) ==
    IF n < 16 THEN <<HexChars[n + 1]>>
    ELSE ToString16(n \div 16) \o <<HexChars[(n % 16) + 1]>>

\* Math.round(a / b) for a >= 0 and b > 0: halves round up
RoundDiv(a, b) == (2 * a + b) \div (2 * b)

\* a toHex that does not pad a single digit
ToHexNoPad(n) == ToString16(RoundDiv(n * 255, ChannelDen))

\* toHex(value) of the channel value n / ChannelDen
ToHex(n) ==
    LET hex == ToString16(RoundDiv(n * 255, ChannelDen))
    IN  IF Len(hex) = 1 THEN <<"0">> \o hex ELSE hex

\* rgbToHex(rgb)
RgbToHex(rgb) ==
    IF ~IsSome(rgb) THEN <<"#", "0", "0", "0", "0", "0", "0">>
    ELSE <<"#">> \o ToHex(Get(rgb).r) \o ToHex(Get(rgb).g) \o ToHex(Get(rgb).b)

Channels == 0..ChannelDen

Colours == {None} \cup {Some(c) : c \in [r : Channels, g : Channels, b : Channels]}

HexInit ==
    /\ ExportInit
    /\ ToolsIdle
    /\ LoggerIdle
    /\ AppIdle
    /\ op = "none"
    /\ input \in Colours
    /\ output = <<>>

ApplyRgbToHex ==
    /\ op = "none"
    /\ op' = "rgbToHex"
    /\ output' = RgbToHex(input)
    /\ UNCHANGED <<input, nonPureVars>>

HexNext == ApplyRgbToHex

SpecHex == HexInit /\ [][HexNext]_vars

----------------------------------------------------------------------------
(* Claims about rgbToHex *)

IsHexDigit(c) == \E i \in 1..16 : HexChars[i] = c
HexDigitValue(c) == (CHOOSE i \in 1..16 : HexChars[i] = c) - 1
PairValue(s, at) == 16 * HexDigitValue(s[at]) + HexDigitValue(s[at + 1])
Distance(a, b) == IF a >= b THEN a - b ELSE b - a

\* the pair at position `at` encodes round(255 * n / ChannelDen), which is
\* within 1/255 of the channel once divided by 255
EncodesChannel(s, at, n) ==
    /\ IsHexDigit(s[at])
    /\ IsHexDigit(s[at + 1])
    /\ 2 * Distance(PairValue(s, at) * ChannelDen, 255 * n) <= ChannelDen
    /\ (2 * Distance(PairValue(s, at) * ChannelDen, 255 * n) = ChannelDen
          => PairValue(s, at) * ChannelDen > 255 * n)
    /\ Distance(PairValue(s, at) * ChannelDen, 255 * n) <= ChannelDen

\* C8: for channels in [0,1] rgbToHex returns '#' followed by two
\* zero-padded hex digits per channel encoding round(255 * channel), which
\* recover the channel within 1/255; an absent colour gives '#000000'.
C8_HexEncodesRoundedChannels ==
    op = "rgbToHex" =>
        IF IsSome(input)
        THEN /\ Len(output) = 7
             /\ output[1] = "#"
             /\ EncodesChannel(output, 2, Get(input).r)
             /\ EncodesChannel(output, 4, Get(input).g)
             /\ EncodesChannel(output, 6, Get(input).b)
        ELSE output = <<"#", "0", "0", "0", "0", "0", "0">>

\* a colour with a channel that needs the zero padding, a channel whose
\* scaled value lies halfway between two integers, and a full channel
C8_Witness ==
    /\ op = "rgbToHex"
    /\ input = Some([r |-> 1, g |-> 10, b |-> ChannelDen])
    /\ output = <<"#", "0", "d", "8", "0", "f", "f">>

----------------------------------------------------------------------------
(* The sanitized file name of the document-writing handlers *)

IsAlnum(c) ==
    \/ \E i \in 1..Len(LowerChars) : LowerChars[i] = c
    \/ \E i \in 1..Len(DigitChars) : DigitChars[i] = c

RECURSIVE DropWhileNotAlnum(_)
DropWhileNotAlnum(s) ==
    IF s = <<>> \/ IsAlnum(Head(s)) THEN s ELSE DropWhileNotAlnum(Tail(s))

RECURSIVE ReplaceEachNonAlnum(_)
\* .replace(/[^a-z0-9]/g, "-"): a pattern that lacks the +
ReplaceEachNonAlnum(s) ==
    IF s = <<>> THEN <<>>
    ELSE <<IF IsAlnum(Head(s)) THEN Head(s) ELSE "-">> \o ReplaceEachNonAlnum(Tail(s))

RECURSIVE ReplaceNonAlnumRuns(_)
\* .replace(/[^a-z0-9]+/g, "-")
ReplaceNonAlnumRuns(s) ==
    IF s = <<>> THEN <<>>
    ELSE IF IsAlnum(Head(s)) THEN <<Head(s)>> \o ReplaceNonAlnumRuns(Tail(s))
         ELSE <<"-">> \o ReplaceNonAlnumRuns(DropWhileNotAlnum(s))

RECURSIVE DropLeadingDashes(_)
DropLeadingDashes(s) ==
    IF s # <<>> /\ Head(s) = "-" THEN DropLeadingDashes(Tail(s)) ELSE s

RECURSIVE DropTrailingDashes(_)
DropTrailingDashes(s) ==
    IF s # <<>> /\ s[Len(s)] = "-" THEN DropTrailingDashes(SubSeq(s, 1, Len(s) - 1)) ELSE s

\* .replace(/^-+|-+$/g, "")
TrimDashes(s) == DropTrailingDashes(DropLeadingDashes(s))

\* title.toLowerCase().replace(/[^a-z0-9]+/g, "-").replace(/^-+|-+$/g, "")
SanitizeFileName(title) == TrimDashes(ReplaceNonAlnumRuns(ToLowerCase(title)))

MaxTitleLen == 4

TitleChars == {"L", "o", "2", " ", "!", "-"}

ExampleTitle == <<"L", "o", "g", "i", "n", " ", "S", "c", "r", "e", "e", "n", "!", "!", " ", "v", "2">>

Titles == SeqsUpTo(TitleChars, MaxTitleLen) \cup {ExampleTitle}

SanitizeInit ==
    /\ ExportInit
    /\ ToolsIdle
    /\ LoggerIdle
    /\ AppIdle
    /\ op = "none"
    /\ input \in Titles
    /\ output = <<>>

ApplySanitize ==
    /\ op = "none"
    /\ op' = "sanitize"
    /\ output' = SanitizeFileName(input)
    /\ UNCHANGED <<input, nonPureVars>>

SanitizeNext == ApplySanitize

SpecSanitize == SanitizeInit /\ [][SanitizeNext]_vars

----------------------------------------------------------------------------
(* Claims about the sanitized file name *)

IsLowerAlnum(c) == IsAlnum(LowerChar(c))

RECURSIVE KeptPositions(_, _)
\* the positions i >= from of s that hold a letter or a digit, in order
KeptPositions(s, from) ==
    IF from > Len(s) THEN <<>>
    ELSE IF IsLowerAlnum(s[from])
         THEN <<from>> \o KeptPositions(s, from + 1)
         ELSE KeptPositions(s, from + 1)

\* C9: the sanitized name is the lowercased title with every maximal run of
\* characters outside [a-z0-9] replaced by exactly one dash and the leading
\* and trailing dashes removed: only lowercase letters, digits and dashes,
\* no two consecutive dashes, no dash at either end.
C9_SanitizedFileName ==
    op = "sanitize" =>
        LET src == KeptPositions(input, 1)
            dst == KeptPositions(output, 1)
        IN  /\ \A i \in 1..Len(output) : IsAlnum(output[i]) \/ output[i] = "-"
            /\ \A i \in 1..(Len(output) - 1) : ~(output[i] = "-" /\ output[i + 1] = "-")
            /\ output # <<>> => output[1] # "-" /\ output[Len(output)] # "-"
            /\ Len(dst) = Len(src)
            /\ \A k \in 1..Len(src) : output[dst[k]] = LowerChar(input[src[k]])
            /\ \A k \in 1..(Len(src) - 1) :
                  dst[k + 1] - dst[k] = IF src[k + 1] - src[k] > 1 THEN 2 ELSE 1
            /\ input = ExampleTitle => output = <<"l", "o", "g", "i", "n", "-", "s", "c", "r", "e", "e", "n", "-", "v", "2">>

\* the title of the specification's example
C9_Witness ==
    /\ op = "sanitize"
    /\ input = ExampleTitle
    /\ output = <<"l", "o", "g", "i", "n", "-", "s", "c", "r", "e", "e", "n", "-", "v", "2">>


----------------------------------------------------------------------------
(* generateDetailedVisualDescription.  The description is a sequence of    *)
(* lines; a line is a record of its kind, the level of the node it belongs *)
(* to and the values printed in it.  A number is printed as itself; an     *)
(* opacity or a colour channel is a numerator over ChannelDen.             *)

Line(k, level, v) == [k |-> k, level |-> level, v |-> v]

\* s || d for an optional string
StrOr(o, d) == IF IsSome(o) /\ Get(o) # <<>> THEN Get(o) ELSE d

\* n || d for an optional number
NumOr(o, d) == IF IsSome(o) /\ Get(o) # 0 THEN Get(o) ELSE d

TruthyOptNum(o) == IsSome(o) /\ Get(o) # 0

\* array && Array.isArray(array) && array.length > 0
NonEmptyArray(o) == IsSome(o) /\ Len(Get(o)) > 0

\* Math.round((fill.opacity || 1) * 100)
OpacityPercent(opacity) == RoundDiv(NumOr(opacity, ChannelDen) * 100, ChannelDen)

GeometryLines(n, level) ==
    IF ~(IsSome(n.absoluteBoundingBox) \/ IsSome(n.size)) THEN <<>>
    ELSE <<Line("geometry", level, <<>>)>>
         \o (IF IsSome(n.absoluteBoundingBox)
             THEN <<Line("position", level, <<Get(n.absoluteBoundingBox).x,
                                              Get(n.absoluteBoundingBox).y>>),
                    Line("dimensions", level, <<Get(n.absoluteBoundingBox).width,
                                                Get(n.absoluteBoundingBox).height>>)>>
             ELSE <<>>)
         \o (IF TruthyOptStr(n.layoutAlign)
             THEN <<Line("alignment", level, <<Get(n.layoutAlign)>>)>> ELSE <<>>)
         \o (IF IsSome(n.layoutGrow)
             THEN <<Line("growth", level, <<Get(n.layoutGrow)>>)>> ELSE <<>>)
         \o (IF \/ TruthyOptNum(n.paddingLeft) \/ TruthyOptNum(n.paddingTop)
                \/ TruthyOptNum(n.paddingRight) \/ TruthyOptNum(n.paddingBottom)
             THEN <<Line("padding", level, <<NumOr(n.paddingTop, 0), NumOr(n.paddingRight, 0),
                                            NumOr(n.paddingBottom, 0), NumOr(n.paddingLeft, 0)>>)>>
             ELSE <<>>)
         \o (IF IsSome(n.itemSpacing)
             THEN <<Line("itemSpacing", level, <<Get(n.itemSpacing)>>)>> ELSE <<>>)
         \o <<Line("blank", level, <<>>)>>

RECURSIVE FillLines(_, _, _)
\* fills.forEach((fill, index) => ...), from the element at index i
FillLines(fills, i, level) ==
    IF i > Len(fills) THEN <<>>
    ELSE (IF fills[i].type = "SOLID"
          THEN <<Line("fill", level, <<i, RgbToHex(fills[i].color),
                                       OpacityPercent(fills[i].opacity)>>)>>
          ELSE <<>>)
         \o FillLines(fills, i + 1, level)

ColorLines(n, level) ==
    IF NonEmptyArray(n.fills)
    THEN <<Line("colors", level, <<>>)>> \o FillLines(Get(n.fills), 1, level)
    ELSE <<>>

TypographyLines(n, level) ==
    IF ~IsSome(n.style) THEN <<>>
    ELSE LET style == Get(n.style)
         IN  <<Line("typography", level, <<>>),
               Line("font", level, <<StrOr(style.fontFamily, <<"Not specified">>)>>),
               Line("fontSize", level,
                    IF TruthyOptNum(style.fontSize) THEN <<Get(style.fontSize)>>
                    ELSE <<"Not specified">>),
               Line("fontWeight", level,
                    IF TruthyOptNum(style.fontWeight) THEN <<Get(style.fontWeight)>>
                    ELSE <<"Normal">>)>>
             \o (IF TruthyOptStr(style.textAlignHorizontal)
                 THEN <<Line("horizontalAlignment", level, <<Get(style.textAlignHorizontal)>>)>>
                 ELSE <<>>)
             \o (IF TruthyOptStr(style.textAlignVertical)
                 THEN <<Line("verticalAlignment", level, <<Get(style.textAlignVertical)>>)>>
                 ELSE <<>>)
             \o (IF TruthyOptNum(style.lineHeightPx)
                 THEN <<Line("lineHeight", level, <<Get(style.lineHeightPx)>>)>>
                 ELSE <<>>)

RECURSIVE StrokeLines(_, _, _, _)
\* strokes.forEach((stroke, index) => ...), from the element at index i
StrokeLines(strokes, i, weight, level) ==
    IF i > Len(strokes) THEN <<>>
    ELSE (IF strokes[i].type = "SOLID"
          THEN <<Line("border", level, <<i, RgbToHex(strokes[i].color), NumOr(weight, 1)>>)>>
          ELSE <<>>)
         \o StrokeLines(strokes, i + 1, weight, level)

BorderLines(n, level) ==
    IF NonEmptyArray(n.strokes)
    THEN <<Line("borders", level, <<>>)>>
         \o StrokeLines(Get(n.strokes), 1, n.strokeWeight, level)
         \o (IF IsSome(n.cornerRadius)
             THEN <<Line("cornerRadius", level, <<Get(n.cornerRadius)>>)>> ELSE <<>>)
    ELSE <<>>

RECURSIVE ShadowLines(_, _, _)
\* effects.forEach((effect, index) => ...), from the element at index i
ShadowLines(effects, i, level) ==
    IF i > Len(effects) THEN <<>>
    ELSE (IF effects[i].type = "DROP_SHADOW"
          THEN <<Line("shadow", level,
                      <<i, RgbToHex(effects[i].color),
                        IF IsSome(effects[i].offset) THEN NumOr(Get(effects[i].offset).x, 0)
                        ELSE 0,
                        IF IsSome(effects[i].offset) THEN NumOr(Get(effects[i].offset).y, 0)
                        ELSE 0,
                        NumOr(effects[i].radius, 0)>>)>>
          ELSE <<>>)
         \o ShadowLines(effects, i + 1, level)

EffectLines(n, level) ==
    IF NonEmptyArray(n.effects)
    THEN <<Line("effects", level, <<>>)>> \o ShadowLines(Get(n.effects), 1, level)
    ELSE <<>>

ContentLines(n, level) ==
    IF TruthyOptStr(n.characters)
    THEN <<Line("content", level, <<>>), Line("text", level, <<Get(n.characters)>>)>>
    ELSE <<>>

RECURSIVE AnalyzeNode(_, _)
RECURSIVE AnalyzeChildren(_, _, _)

\* a walk that visits the children last to first
AnalyzeChildrenReversed(children, i, level) ==
    IF i > Len(children) THEN <<>>
    ELSE AnalyzeNode(children[Len(children) + 1 - i], level + 1)
         \o (IF i < Len(children) THEN <<Line("divider", level, <<>>)>> ELSE <<>>)
         \o AnalyzeChildren(children, i + 1, level)

\* a walk that puts a divider after every child
AnalyzeChildrenDividerAfterEach(children, i, level) ==
    IF i > Len(children) THEN <<>>
    ELSE AnalyzeNode(children[i], level + 1)
         \o <<Line("divider", level, <<>>)>>
         \o AnalyzeChildren(children, i + 1, level)

\* children.forEach((child, index) => ...), from the child at index i
AnalyzeChildren(children, i, level) ==
    IF i > Len(children) THEN <<>>
    ELSE AnalyzeNode(children[i], level + 1)
         \o (IF i < Len(children) THEN <<Line("divider", level, <<>>)>> ELSE <<>>)
         \o AnalyzeChildren(children, i + 1, level)

\* analyzeNode(currentNode, level)
AnalyzeNode(n, level) ==
    <<Line("header", level, <<IF level = 0 THEN "root" ELSE "child",
                              StrOr(n.name, <<"Unnamed element">>), n.type>>),
      Line("identification", level, <<>>),
      Line("name", level, <<StrOr(n.name, <<"Unnamed">>)>>),
      Line("type", level, <<n.type>>),
      Line("function", level, <<InferElementPurpose(n)>>)>>
    \o GeometryLines(n, level)
    \o <<Line("appearance", level, <<>>)>>
    \o ColorLines(n, level)
    \o TypographyLines(n, level)
    \o BorderLines(n, level)
    \o EffectLines(n, level)
    \o ContentLines(n, level)
    \o <<Line("blank", level, <<>>)>>
    \o (IF NonEmptyArray(n.children)
        THEN <<Line("children", level, <<Len(Get(n.children))>>)>>
             \o AnalyzeChildren(Get(n.children), 1, level)
        ELSE <<>>)

\* generateDetailedVisualDescription(node, file)
GenerateDetailedVisualDescription(node, file) ==
    AnalyzeNode(node, 0)
    \o <<Line("globalContext", 0, <<>>),
         Line("fileName", 0, <<file.name>>),
         Line("lastModified", 0, <<StrOr(file.lastModified, <<"Not specified">>)>>)>>
    \o (IF file.globalVars > 0 THEN <<Line("globalVars", 0, <<file.globalVars>>)>> ELSE <<>>)
    \o <<Line("recommendations", 0, <<>>)>>


----------------------------------------------------------------------------
(* The descriptor applied to every tree of at most MaxNodes nodes.  A file  *)
(* context carries its name, its optional lastModified and the number of   *)
(* keys of its globalVars (0 when it has none).                            *)

MaxNodes == 5

\* a node of which only the name, the type and the children are present
BareNode(name, type, children) ==
    [name |-> name, type |-> type, children |-> children,
     absoluteBoundingBox |-> None, size |-> None, layoutAlign |-> None,
     layoutGrow |-> None, paddingLeft |-> None, paddingTop |-> None,
     paddingRight |-> None, paddingBottom |-> None, itemSpacing |-> None,
     fills |-> None, style |-> None, strokes |-> None, strokeWeight |-> None,
     cornerRadius |-> None, effects |-> None, characters |-> None]

NodeLabels == {[name |-> None, type |-> TypeFRAME],
               [name |-> Some(<<"E", "m", "a", "i", "l">>), type |-> TypeTEXT]}

RECURSIVE TreesOf(_)
RECURSIVE ForestsOf(_)

\* the trees of exactly n nodes
TreesOf(n) ==
    {BareNode(l.name, l.type, IF f = <<>> THEN None ELSE Some(f)) :
        l \in NodeLabels, f \in ForestsOf(n - 1)}

\* the sequences of trees of m nodes in all
ForestsOf(m) ==
    IF m = 0 THEN {<<>>}
    ELSE UNION {{<<t>> \o f : t \in TreesOf(k), f \in ForestsOf(m - k)} : k \in 1..m}

Trees == UNION {TreesOf(n) : n \in 1..MaxNodes}

FileContexts ==
    {[name |-> <<"D", "e", "s", "i", "g", "n">>, lastModified |-> None, globalVars |-> 0],
     [name |-> <<"D", "e", "s", "i", "g", "n">>, lastModified |-> Some(<<"2", "0", "2", "4">>), globalVars |-> 2]}

DescribeInit ==
    /\ ExportInit
    /\ ToolsIdle
    /\ LoggerIdle
    /\ AppIdle
    /\ op = "none"
    /\ input \in [node : Trees, file : FileContexts]
    /\ output = <<>>

ApplyDescribe ==
    /\ op = "none"
    /\ op' = "describe"
    /\ output' = GenerateDetailedVisualDescription(input.node, input.file)
    /\ UNCHANGED <<input, nonPureVars>>

DescribeNext == ApplyDescribe

SpecDescribe == DescribeInit /\ [][DescribeNext]_vars

----------------------------------------------------------------------------
(* Claims about the descriptor walk *)

IsHeader(line) == line.k = "header"
Headers(lines) == SelectSeq(lines, IsHeader)

RECURSIVE CountNodes(_)
RECURSIVE CountForest(_)
CountNodes(n) == 1 + (IF IsSome(n.children) THEN CountForest(Get(n.children)) ELSE 0)
CountForest(f) == IF f = <<>> THEN 0 ELSE CountNodes(Head(f)) + CountForest(Tail(f))

RECURSIVE PreOrder(_, _)
RECURSIVE PreOrderForest(_, _)
\* the nodes of a tree with their depths: a node, then the subtree of each of
\* its children in sequence order
PreOrder(n, depth) ==
    <<[name |-> n.name, type |-> n.type, depth |-> depth]>>
    \o (IF IsSome(n.children) THEN PreOrderForest(Get(n.children), depth + 1) ELSE <<>>)
PreOrderForest(f, depth) ==
    IF f = <<>> THEN <<>> ELSE PreOrder(Head(f), depth) \o PreOrderForest(Tail(f), depth)

\* C6: for a tree of N nodes the description holds exactly N element headers,
\* one per node, in depth-first pre-order.
C6_HeadersInPreOrder ==
    op = "describe" =>
        LET heads == Headers(output)
            nodes == PreOrder(input.node, 0)
        IN  /\ Len(heads) = CountNodes(input.node)
            /\ Len(heads) = Len(nodes)
            /\ \A i \in 1..Len(heads) :
                  /\ heads[i].level = nodes[i].depth
                  /\ heads[i].v[2] = (IF IsSome(nodes[i].name) THEN Get(nodes[i].name)
                                      ELSE <<"Unnamed element">>)
                  /\ heads[i].v[3] = nodes[i].type

\* a root with two children, the first of which has a child of its own
C6_Witness ==
    /\ op = "describe"
    /\ CountNodes(input.node) = 4
    /\ Len(Get(input.node.children)) = 2
    /\ IsSome(Get(input.node.children)[1].children)
    /\ Get(input.node.children)[1].type # Get(input.node.children)[2].type
    /\ Len(Headers(output)) = 4


----------------------------------------------------------------------------
(* The other tools.  An invocation is a record of its tool, its arguments, *)
(* its position (awaiting its fetch, or done) and its result.  A file of   *)
(* the working directory is a record of its name and of the invocation     *)
(* that wrote its content.  A thrown value is an Error object with its     *)
(* message, or anything else.                                              *)

ErrorObject(msg) == [isError |-> TRUE, message |-> msg]
NonError(v) == [isError |-> FALSE, message |-> v]

\* error instanceof Error ? error.message : JSON.stringify(error)
ErrorMessage(e) == IF e.isError THEN <<e.message>> ELSE <<"\"", e.message, "\"">>

Outcome(f, r) == [fs |-> f, result |-> r]

SuffixMd == <<".", "m", "d">>
SuffixVisual == <<"-", "v", "i", "s", "u", "a", "l", "-", "d", "e", "s", "c", "r", "i", "p", "t", "i", "o", "n", ".", "m", "d">>
SuffixTechSpec == <<"-", "t", "e", "c", "h", "n", "i", "c", "a", "l", "-", "s", "p", "e", "c", "i", "f", "i", "c", "a", "t", "i", "o", "n", ".", "m", "d">>
SuffixData == <<"-", "f", "i", "g", "m", "a", "-", "d", "a", "t", "a", ".", "m", "d">>

\* a write that adds to what the file holds
WriteFileAppend(entries, name, by) == entries \cup {[name |-> name, by |-> by]}

\* fs.writeFileSync(path.join(dir, name), content): creates or replaces
WriteFile(entries, name, by) ==
    {x \in entries : x.name # name} \cup {[name |-> name, by |-> by]}

\* the prefixes of a directory path, the path itself included
Prefixes(dir) == {SubSeq(dir, 1, k) : k \in 0..Len(dir)}

\* fs.mkdirSync(dir, { recursive }): the error code thrown, if any, and the
\* directories afterwards
MkdirSync(dirs, dir, recursive, denied) ==
    IF denied THEN [error |-> Some("EACCES: permission denied, mkdir"), dirs |-> dirs]
    ELSE IF recursive THEN [error |-> None, dirs |-> dirs \cup Prefixes(dir)]
    ELSE IF dir \in dirs
         THEN [error |-> Some("EEXIST: file already exists, mkdir"), dirs |-> dirs]
    ELSE IF SubSeq(dir, 1, Len(dir) - 1) \notin dirs
         THEN [error |-> Some("ENOENT: no such file or directory, mkdir"), dirs |-> dirs]
         ELSE [error |-> None, dirs |-> dirs \cup {dir}]

\* a directory step that creates the directory without looking, not recursively
EnsureDirectoryNoCheck(dirs, dir, raced, denied) ==
    MkdirSync(IF raced THEN dirs \cup Prefixes(dir) ELSE dirs, dir, FALSE, denied)

\* if (!fs.existsSync(outputDir)) fs.mkdirSync(outputDir, { recursive: true });
\* raced: another writer creates the directory between the two calls
EnsureDirectory(dirs, dir, raced, denied) ==
    IF dir \in dirs THEN [error |-> None, dirs |-> dirs]
    ELSE MkdirSync(IF raced THEN dirs \cup Prefixes(dir) ELSE dirs, dir, TRUE, denied)

----------------------------------------------------------------------------
(* The handlers after their await.  fetched is what the fetch service      *)
(* settled with; failAt names the collaborator call that throws, if the    *)
(* handler gets to it ("none": no call throws).                            *)

\* a catch block that rethrows
GetFigmaDataCatchRethrow(e) == Rejected

GetFigmaDataCatch(e) == Failure(<<"Error fetching file: ">> \o ErrorMessage(e))

\* get_figma_data
GetFigmaDataResume(fetched, failAt, f) ==
    IF ~fetched.ok THEN Outcome(f, GetFigmaDataCatch(fetched.error))
    ELSE IF failAt = "yaml" THEN Outcome(f, GetFigmaDataCatch(ErrorObject("YAMLException")))
    ELSE Outcome(f, Success(<<"yaml">>))

ToFileCatch(e) == Failure(<<"Error saving Figma data: ">> \o ErrorMessage(e))

\* a handler that appends the Figma patterns to .gitignore without reading it
ToFileResumeAlwaysAppend(call, i, fetched, failAt, f) ==
    IF ~fetched.ok THEN Outcome(f, ToFileCatch(fetched.error))
    ELSE LET title == IF TruthyOptStr(call.fileName) THEN Get(call.fileName)
                      ELSE fetched.file.name
             name == SanitizeFileName(title) \o SuffixMd
             written == [f EXCEPT !.files = WriteFile(@, name, i)]
             appended == [written EXCEPT !.gitignore =
                             Some([patterns |-> TRUE, blocks |-> Get(@).blocks + 1])]
             saved == Success(<<"Figma data saved successfully", name>>)
         IN  IF failAt \in {"yaml", "write"}
             THEN Outcome(f, ToFileCatch(ErrorObject("EACCES: permission denied, open")))
             ELSE IF ~IsSome(f.gitignore) THEN Outcome(written, saved)
             ELSE Outcome(appended, saved)

\* get_figma_data_to_file of logger.ts: the file goes to the working
\* directory, and an existing .gitignore gets the Figma patterns once
ToFileResume(call, i, fetched, failAt, f) ==
    IF ~fetched.ok THEN Outcome(f, ToFileCatch(fetched.error))
    ELSE LET title == IF TruthyOptStr(call.fileName) THEN Get(call.fileName)
                      ELSE fetched.file.name
             name == SanitizeFileName(title) \o SuffixMd
             written == [f EXCEPT !.files = WriteFile(@, name, i)]
             appended == [written EXCEPT !.gitignore =
                             Some([patterns |-> TRUE, blocks |-> Get(@).blocks + 1])]
             saved == Success(<<"Figma data saved successfully", name>>)
         IN  IF failAt = "yaml" THEN Outcome(f, ToFileCatch(ErrorObject("YAMLException")))
             ELSE IF failAt = "write" THEN Outcome(f, ToFileCatch(ErrorObject("EACCES: permission denied, open")))
             ELSE IF ~IsSome(f.gitignore) THEN Outcome(written, saved)
             ELSE IF failAt = "read"
                  THEN Outcome(written, ToFileCatch(ErrorObject("EACCES: permission denied, open")))
             ELSE IF Get(f.gitignore).patterns THEN Outcome(written, saved)
             ELSE IF failAt = "append"
                  THEN Outcome(written, ToFileCatch(ErrorObject("EACCES: permission denied, open")))
             ELSE Outcome(appended, saved)

\* get_figma_data_to_file of mcp.ts: the file goes to filePath, whose
\* directory is created when it does not exist
ToFilePathResume(call, i, fetched, failAt, raced, f) ==
    IF ~fetched.ok THEN Outcome(f, ToFileCatch(fetched.error))
    ELSE LET base == IF EndsWith(call.path.base, SuffixMd) THEN call.path.base
                     ELSE call.path.base \o SuffixMd
             dir == call.path.dir
             made == EnsureDirectory(f.dirs, dir, raced, failAt = "mkdir")
             withDir == [f EXCEPT !.dirs = made.dirs]
             written == [withDir EXCEPT !.pathFiles =
                            {x \in @ : ~(x.dir = dir /\ x.base = base)}
                            \cup {[by |-> i, dir |-> dir, base |-> base]}]
         IN  IF failAt = "yaml" THEN Outcome(f, ToFileCatch(ErrorObject("YAMLException")))
             ELSE IF IsSome(made.error)
                  THEN Outcome(withDir, ToFileCatch(ErrorObject(Get(made.error))))
             ELSE IF dir \notin made.dirs
                  THEN Outcome(withDir,
                          ToFileCatch(ErrorObject("ENOENT: no such file or directory, open")))
             ELSE IF failAt = "write"
                  THEN Outcome(withDir,
                          ToFileCatch(ErrorObject("EACCES: permission denied, open")))
             ELSE Outcome(written, Success(<<"Figma data saved successfully", dir, base>>))

VisualCatch(e) ==
    Failure(<<"Error generating visual description: ">> \o ErrorMessage(e))

\* a handler that saves a file before it looks for the first node
VisualResumeWriteFirst(call, i, fetched, failAt, f) ==
    IF ~fetched.ok THEN Outcome(f, VisualCatch(fetched.error))
    ELSE Outcome([f EXCEPT !.files = WriteFile(@, <<"v", "i", "s", "u", "a", "l", "-", "a", "n", "a", "l", "y", "s", "i", "s">> \o SuffixVisual, i)],
                 IF fetched.file.nodes = <<>>
                 THEN VisualCatch(ErrorObject("Node not found or empty"))
                 ELSE Success(<<"Visual description generated successfully",
                                <<"v", "i", "s", "u", "a", "l", "-", "a", "n", "a", "l", "y", "s", "i", "s">> \o SuffixVisual>>))

\* generate_visual_description
VisualResume(call, i, fetched, failAt, f) ==
    IF ~fetched.ok THEN Outcome(f, VisualCatch(fetched.error))
    ELSE IF fetched.file.nodes = <<>>
         THEN Outcome(f, VisualCatch(ErrorObject("Node not found or empty")))
    ELSE LET node == fetched.file.nodes[1]
             title == IF TruthyOptStr(call.fileName) THEN Get(call.fileName)
                      ELSE StrOr(node.name, <<"v", "i", "s", "u", "a", "l", "-", "a", "n", "a", "l", "y", "s", "i", "s">>)
             name == SanitizeFileName(title) \o SuffixVisual
             written == [f EXCEPT !.files = WriteFile(@, name, i)]
         IN  IF failAt = "describe" THEN Outcome(f, VisualCatch(ErrorObject("TypeError")))
             ELSE IF failAt = "yaml"
                  THEN Outcome(f, VisualCatch(ErrorObject("YAMLException")))
             ELSE IF failAt = "write" THEN Outcome(f, VisualCatch(ErrorObject("EACCES: permission denied, open")))
             ELSE Outcome(written,
                          Success(<<"Visual description generated successfully", name>>))

TechSpecCatch(e) ==
    Failure(<<"Error generating technical specification: ">> \o ErrorMessage(e))

\* generate_technical_specification
TechSpecResume(call, i, fetched, failAt, f) ==
    IF ~fetched.ok THEN Outcome(f, TechSpecCatch(fetched.error))
    ELSE IF fetched.file.nodes = <<>>
         THEN Outcome(f, TechSpecCatch(ErrorObject("Node not found or empty")))
    ELSE LET mainNode == fetched.file.nodes[1]
             title == IF TruthyOptStr(call.fileName) THEN Get(call.fileName)
                      ELSE StrOr(mainNode.name, <<"t", "e", "c", "h", "n", "i", "c", "a", "l", "-", "s", "p", "e", "c">>)
             name == SanitizeFileName(title) \o SuffixTechSpec
             written == [f EXCEPT !.files = WriteFile(@, name, i)]
         IN  IF failAt = "describe" THEN Outcome(f, TechSpecCatch(ErrorObject("TypeError")))
             ELSE IF failAt = "yaml"
                  THEN Outcome(f, TechSpecCatch(ErrorObject("YAMLException")))
             ELSE IF failAt = "write" THEN Outcome(f, TechSpecCatch(ErrorObject("EACCES: permission denied, open")))
             ELSE Outcome(written,
                          Success(<<"Complete technical specification generated successfully!",
                                    name>>))

\* the filter of list_figma_exports
IsExportName(name) ==
    \/ EndsWith(name, SuffixVisual)
    \/ EndsWith(name, SuffixTechSpec)
    \/ EndsWith(name, SuffixData)

\* list_figma_exports: the whole handler, which awaits nothing
ListFigmaExports(failAt, f) ==
    LET found == {x.name : x \in {y \in f.files : IsExportName(y.name)}}
        failed == Failure(<<"Error listing files: ">>
                          \o ErrorMessage(ErrorObject("EACCES: permission denied, scandir")))
    IN  IF failAt = "readdir" THEN Outcome(f, failed)
        ELSE IF found # {} /\ failAt = "stat" THEN Outcome(f, failed)
        ELSE IF found = {}
             THEN Outcome(f, Success(<<"No Figma exported files found in the project directory.">>))
             ELSE Outcome(f, Success(<<"Exported Figma files in your project directory:",
                                       found, Cardinality(found)>>))


----------------------------------------------------------------------------
(* Invocations of the tools.  A behaviour either runs download_figma_images *)
(* once, which shares no state with the other handlers, or repeats one     *)
(* operation (a tool with its arguments) up to MaxCalls times, one after   *)
(* the other or overlapping, and lists the exports in between.             *)

MaxCalls == 2

NoPath == [dir |-> <<>>, base |-> <<>>]

NewCall(tool, nodeId, fileName, filePath) ==
    [pc |-> "await", result |-> NoResult,
     nodeId |-> nodeId, fileName |-> fileName, fetched |-> None,
     path |-> filePath, tool |-> tool,
     fetch |-> <<IF tool = "generate_visual_description" \/ TruthyOptStr(nodeId)
                 THEN "getNode" ELSE "getFile">>]

NodeIds == {None, Some(<<"1", ":", "2">>)}
FileNameArgs == {None, Some(<<"M", "y", " ", "E", "x", "p", "o", "r", "t">>)}
FilePaths == {[dir |-> <<"out">>, base |-> <<"s", "p", "e", "c", ".", "m", "d">>],
              [dir |-> <<"out", "docs">>, base |-> <<"s", "p", "e", "c">>]}

\* what the fetch service may fulfil with: a design of no node or of one node
FetchedFiles ==
    {[nodes |-> <<>>, name |-> <<"H", "o", "m", "e", " ", "P", "a", "g", "e">>],
     [nodes |-> <<[name |-> Some(<<"C", "a", "r", "d">>)]>>,
      name |-> <<"H", "o", "m", "e", " ", "P", "a", "g", "e">>]}

\* what the fetch service may reject with
FetchErrors == {ErrorObject("Figma API error"), NonError("timeout")}

NoError == ErrorObject("")
Fulfilled(file) == [ok |-> TRUE, file |-> file, error |-> NoError]
RejectedWith(e) == [ok |-> FALSE, file |-> [nodes |-> <<>>, name |-> <<>>], error |-> e]

PathTool == "get_figma_data_to_file(filePath)"

\* the collaborator calls of a handler that may throw
FailPoints(tool) ==
    CASE tool = "get_figma_data" -> {"none", "yaml"}
      [] tool = "get_figma_data_to_file" -> {"none", "yaml", "write", "read", "append"}
      [] tool = PathTool -> {"none", "yaml", "mkdir", "write"}
      [] tool \in {"generate_visual_description", "generate_technical_specification"} ->
            {"none", "describe", "yaml", "write"}

\* whether another writer may create the directory meanwhile
Races(tool) == IF tool = PathTool THEN BOOLEAN ELSE {FALSE}

InFlight == {i \in 1..Len(calls) : calls[i].pc = "await"}

\* call repeats the operation of the fetching invocations before it
SameOperation(call) ==
    \A i \in 1..Len(calls) :
        \/ calls[i].tool = "list_figma_exports"
        \/ [calls[i] EXCEPT !.pc = "await", !.result = NoResult, !.fetched = None] = call

ToolsInit ==
    /\ ExportInit
    /\ PureIdle
    /\ LoggerIdle
    /\ AppIdle
    /\ calls = <<>>
    /\ fs \in {[EmptyFs EXCEPT !.gitignore = g] :
                  g \in {None, Some([patterns |-> FALSE, blocks |-> 0]),
                         Some([patterns |-> TRUE, blocks |-> 0])}}
    /\ events = <<>>

\* a handler from its call to the await of its fetch
Invoke(call) ==
    /\ Len(calls) < MaxCalls
    /\ pc = "idle"
    /\ SameOperation(call)
    /\ calls' = Append(calls, call)
    /\ events' = Append(events, [call |-> Len(calls) + 1, ev |-> "start"])
    /\ UNCHANGED <<fs, nonToolVars>>

InvokeGetFigmaData ==
    \E n \in NodeIds : Invoke(NewCall("get_figma_data", n, None, NoPath))

InvokeToFile ==
    \E n \in NodeIds, t \in FileNameArgs :
        Invoke(NewCall("get_figma_data_to_file", n, t, NoPath))

InvokeToFilePath ==
    \E n \in NodeIds, p \in FilePaths :
        Invoke(NewCall(PathTool, n, None, p))

InvokeVisual ==
    \E t \in FileNameArgs :
        Invoke(NewCall("generate_visual_description", Some(<<"1", ":", "2">>), t, NoPath))

InvokeTechSpec ==
    \E n \in NodeIds, t \in FileNameArgs :
        Invoke(NewCall("generate_technical_specification", n, t, NoPath))

\* list_figma_exports, from its call to its return
InvokeList ==
    \E failAt \in {"none", "readdir", "stat"} :
        /\ Len(calls) < MaxCalls
        /\ pc = "idle"
        /\ calls' = Append(calls,
              [NewCall("list_figma_exports", None, None, NoPath) EXCEPT
                  !.pc = "done", !.fetch = <<>>,
                  !.result = ListFigmaExports(failAt, fs).result])
        /\ events' = Append(events, [call |-> Len(calls) + 1, ev |-> "done"])
        /\ UNCHANGED <<fs, nonToolVars>>

\* download_figma_images, for no request or one
InvokeDownload ==
    /\ calls = <<>>
    /\ \E c \in {"logger", "mcp"}, reqs \in {r \in RequestLists : Len(r) <= 1},
          throws \in {"none", "getImageFills", "getImages"} :
            DownloadInvoke(c, reqs, throws)

Resume(call, i, fetched, failAt, raced, f) ==
    CASE call.tool = "get_figma_data" -> GetFigmaDataResume(fetched, failAt, f)
      [] call.tool = "get_figma_data_to_file" -> ToFileResume(call, i, fetched, failAt, f)
      [] call.tool = PathTool ->
            ToFilePathResume(call, i, fetched, failAt, raced, f)
      [] call.tool = "generate_visual_description" ->
            VisualResume(call, i, fetched, failAt, f)
      [] call.tool = "generate_technical_specification" ->
            TechSpecResume(call, i, fetched, failAt, f)

\* a handler that calls the fetch service once more when it has failed
CompletedOrRetried(call, r) ==
    IF r.isError /\ Len(call.fetch) < 2
    THEN [call EXCEPT !.fetch = Append(@, @[1])]
    ELSE [call EXCEPT !.pc = "done", !.result = r]

\* the invocation once its handler has returned r: nothing is fetched again
Completed(call, r) == [call EXCEPT !.pc = "done", !.result = r]

\* the fetch of invocation i settles and the handler runs to its return
Settle(i, fetched, failAt, raced) ==
    /\ i \in InFlight
    /\ LET out == Resume(calls[i], i, fetched, failAt, raced, fs)
       IN  /\ calls' = [calls EXCEPT
                          ![i] = Completed([calls[i] EXCEPT !.fetched = Some(fetched)],
                                           out.result)]
           /\ fs' = out.fs
    /\ events' = Append(events, [call |-> i, ev |-> "done"])
    /\ UNCHANGED nonToolVars

FetchResolve ==
    \E i \in InFlight :
        \E file \in FetchedFiles, failAt \in FailPoints(calls[i].tool),
           raced \in Races(calls[i].tool) :
            Settle(i, Fulfilled(file), failAt, raced)

FetchReject ==
    \E i \in InFlight, e \in FetchErrors : Settle(i, RejectedWith(e), "none", FALSE)

ToolsNext ==
    \/ InvokeGetFigmaData
    \/ InvokeToFile
    \/ InvokeToFilePath
    \/ InvokeVisual
    \/ InvokeTechSpec
    \/ InvokeList
    \/ InvokeDownload
    \/ FetchResolve
    \/ FetchReject
    \/ \E ok \in BOOLEAN : FillItem(ok)
    \/ \E ok \in BOOLEAN : RenderItem(ok)
    \/ FillFulfil
    \/ RenderFulfil
    \/ FillReject
    \/ RenderReject

SpecTools == ToolsInit /\ [][ToolsNext]_vars


----------------------------------------------------------------------------
(* Claims about the tool handlers *)

OneOfTwoShapes(r) ==
    /\ r.text # <<>>
    /\ \/ r = Success(r.text)
       \/ r = Failure(r.text)

Done == {i \in 1..Len(calls) : calls[i].pc = "done"}

PastDirectoryStep ==
    {i \in Done : /\ calls[i].tool = PathTool
                  /\ \/ ~calls[i].result.isError
                     \/ calls[i].result.text[2] = "EACCES: permission denied, open"}

\* C10: no invocation of get_figma_data_to_file fails because its target
\* directory already exists (or because its parent does not), however many
\* invocations name that directory and whoever created it; and once an
\* invocation is past its directory step the directory exists.
C10_DirectoryCreationIsIdempotent ==
    /\ \A i \in Done :
          calls[i].tool = PathTool /\ calls[i].result.isError =>
              calls[i].result.text[2] \notin
                  {"EEXIST: file already exists, mkdir",
                   "ENOENT: no such file or directory, mkdir",
                   "ENOENT: no such file or directory, open"}
    /\ \A i \in PastDirectoryStep : Prefixes(calls[i].path.dir) \subseteq fs.dirs

\* two overlapping invocations for one path under a directory that did not
\* exist, both saved
C10_Witness ==
    /\ Len(calls) = 2
    /\ calls[1].tool = PathTool
    /\ calls[1].path.dir = <<"out", "docs">>
    /\ calls[2].path = calls[1].path
    /\ Len(events) = 4
    /\ events[1].ev = "start"
    /\ events[2].ev = "start"
    /\ ~calls[1].result.isError
    /\ ~calls[2].result.isError
    /\ calls[1].path.dir \in fs.dirs


----------------------------------------------------------------------------
(* The logger and createServer.  A handler reaches the logger only through *)
(* Logger.log and Logger.error, so its invocations appear here as these    *)
(* two calls.                                                              *)

MaxServers == 3
MaxLogged == 3

\* a Logger.log that ignores the flag
LogStreamStdout(flag) == "stdout"

\* Logger.log: console.log when Logger.isHTTP, console.error otherwise
LogStream(flag) == IF flag THEN "stdout" ELSE "stderr"

\* Logger.error: console.error
ErrorStream == "stderr"

\* { isHTTP = false }: { isHTTP?: boolean } = {}
IsHTTPOption(o) == IF IsSome(o) THEN Get(o) ELSE FALSE

\* createServer(authOptions, o); throws: a constructor or registerTools
\* throws, which is before the flag is assigned
CreateServer(o, throws) ==
    /\ Len(servers) < MaxServers
    /\ IF throws
       THEN UNCHANGED <<isHTTP, servers>>
       ELSE /\ isHTTP' = IsHTTPOption(o)
            /\ servers' = Append(servers, o)
    /\ UNCHANGED <<logged, nonLoggerVars>>

\* Logger.log(...)
LoggerLog ==
    /\ Len(logged) < MaxLogged
    /\ logged' = Append(logged, [level |-> "INFO", flag |-> isHTTP,
                                 stream |-> LogStream(isHTTP)])
    /\ UNCHANGED <<isHTTP, servers, nonLoggerVars>>

\* Logger.error(...)
LoggerError ==
    /\ Len(logged) < MaxLogged
    /\ logged' = Append(logged, [level |-> "ERROR", flag |-> isHTTP,
                                 stream |-> ErrorStream])
    /\ UNCHANGED <<isHTTP, servers, nonLoggerVars>>

LoggerInit == ExportInit /\ PureIdle /\ ToolsIdle /\ LoggerIdle /\ AppIdle

LoggerNext ==
    \/ \E o \in {None, Some(FALSE), Some(TRUE)}, throws \in BOOLEAN : CreateServer(o, throws)
    \/ LoggerLog
    \/ LoggerError

SpecLogger == LoggerInit /\ [][LoggerNext]_vars

\* C11: once a first server has been constructed, no step changes
\* Logger.isHTTP: no further createServer call, no log call.
C11_FlagIsSetOnce == [][servers # <<>> => isHTTP' = isHTTP]_vars

\* C12: every line written by Logger.log went to standard output exactly
\* when Logger.isHTTP was true at the call, and to standard error otherwise;
\* every line written by Logger.error went to standard error.
C12_LogStreamFollowsFlag ==
    \A i \in 1..Len(logged) :
        /\ logged[i].level = "INFO" =>
              /\ logged[i].flag => logged[i].stream = "stdout"
              /\ ~logged[i].flag => logged[i].stream = "stderr"
        /\ logged[i].level = "ERROR" => logged[i].stream = "stderr"

\* a log line before the HTTP server is constructed, then a log line and an
\* error line after it
C12_Witness ==
    /\ Len(logged) = 3
    /\ logged[1] = [level |-> "INFO", flag |-> FALSE, stream |-> "stderr"]
    /\ logged[2] = [level |-> "INFO", flag |-> TRUE, stream |-> "stdout"]
    /\ logged[3] = [level |-> "ERROR", flag |-> TRUE, stream |-> "stderr"]


----------------------------------------------------------------------------
(* Claims about the invocations and the fetch service *)

SettledPromise(p) == p.state \in {"fulfilled", "rejected"}

\* C13: an invocation calls the fetch service at most once per operation;
\* an invocation that has returned stays as it is, and a promise of
\* getImageFills or getImages that has settled is not replaced by a new call.
C13_NoRetries ==
    /\ [](\A i \in 1..Len(calls) : Len(calls[i].fetch) <= 1)
    /\ [][\A i \in 1..Len(calls) : calls[i].pc = "done" => calls'[i] = calls[i]]_vars
    /\ [][SettledPromise(fillP) => fillP' = fillP]_vars
    /\ [][SettledPromise(renderP) => renderP' = renderP]_vars
    /\ [][pc = "done" => pc' = "done"]_vars

\* the fetch of an invocation was rejected, the invocation failed after one
\* call, and the caller's second invocation fetched once and succeeded
C13_Witness ==
    /\ Len(calls) = 2
    /\ calls[1].result = VisualCatch(ErrorObject("Figma API error"))
    /\ calls[1].fetch = <<"getNode">>
    /\ calls[2].pc = "done"
    /\ ~calls[2].result.isError
    /\ calls[2].fetch = <<"getNode">>


\* the invocations whose fetch fulfilled with a design of no node
FetchedNoNode(c) ==
    {i \in 1..Len(c) : /\ c[i].tool \in {"generate_visual_description",
                                        "generate_technical_specification"}
                       /\ c[i].fetched # None
                       /\ Get(c[i].fetched).ok
                       /\ Get(c[i].fetched).file.nodes = <<>>}

NotFoundResult(tool) ==
    IF tool = "generate_visual_description"
    THEN Failure(<<"Error generating visual description: ", "Node not found or empty">>)
    ELSE Failure(<<"Error generating technical specification: ", "Node not found or empty">>)

\* C14: when the fetch fulfils with an empty node list,
\* generate_visual_description and generate_technical_specification return
\* the failure shape with the message 'Node not found or empty', and the step
\* in which the handler returns leaves the file system as it was.
C14_EmptyNodeListFails ==
    /\ [](\A i \in FetchedNoNode(calls) : calls[i].result = NotFoundResult(calls[i].tool))
    /\ [][\A i \in FetchedNoNode(calls') : calls[i].pc = "await" => fs' = fs]_vars

\* a first invocation saved its file; the second got an empty node list,
\* failed, and left the first file alone
C14_Witness ==
    /\ Len(calls) = 2
    /\ calls[1].tool = "generate_technical_specification"
    /\ ~calls[1].result.isError
    /\ 2 \in FetchedNoNode(calls)
    /\ calls[2].result.isError
    /\ \E x \in fs.files : x.by = 1 /\ fs.files = {x}


----------------------------------------------------------------------------
(* The executive summary of generate_technical_specification *)

MaxTopNodes == 6

\* nodes.length > 5 ? "High" : nodes.length > 2 ? "Medium" : "Low", followed
\* by (${nodes.length} total elements); nodes is the node list of the design
ComplexityLine(nodes) ==
    <<IF Len(nodes) > 5 THEN "High" ELSE IF Len(nodes) > 2 THEN "Medium" ELSE "Low",
      Len(nodes)>>

Leaf == BareNode(None, TypeFRAME, None)

\* the trees a fetched node list is made of: of one, three and six nodes
TopNodes ==
    {Leaf,
     BareNode(None, TypeFRAME, Some(<<Leaf, Leaf>>)),
     BareNode(None, TypeFRAME, Some(<<Leaf, BareNode(None, TypeFRAME, Some(<<Leaf, Leaf, Leaf>>))>>))}

ComplexityInit ==
    /\ ExportInit
    /\ ToolsIdle
    /\ LoggerIdle
    /\ AppIdle
    /\ op = "none"
    /\ input \in UNION {[1..n -> TopNodes] : n \in 1..MaxTopNodes}
    /\ output = <<>>

ApplyComplexity ==
    /\ op = "none"
    /\ op' = "complexity"
    /\ output' = ComplexityLine(input)
    /\ UNCHANGED <<input, nonPureVars>>

ComplexityNext == ApplyComplexity

SpecComplexity == ComplexityInit /\ [][ComplexityNext]_vars

\* C15: the complexity level of the executive summary is 'High' when the
\* analysed tree has more than 5 nodes in all, 'Medium' when it has more
\* than 2 and at most 5, and 'Low' otherwise.
C15_ComplexityByTotalNodes ==
    op = "complexity" =>
        output[1] = (IF CountForest(input) > 5 THEN "High"
                     ELSE IF CountForest(input) > 2 THEN "Medium" ELSE "Low")


----------------------------------------------------------------------------
(* The descriptor run more than once in a process whose clock advances and *)
(* whose logging flag gets set between the runs.  A run is a record of the *)
(* time, the flag and the number of earlier runs it saw, and of its text.  *)

MaxClock == 2
MaxRuns == 2

\* a descriptor that stamps its text with the time
DescribeStamped(now, flag, earlier, node, file) ==
    GenerateDetailedVisualDescription(node, file) \o <<Line("generatedAt", 0, <<now>>)>>

\* generateDetailedVisualDescription(node, file) called at time now, with
\* Logger.isHTTP = flag, after `earlier` runs: it reads its two arguments only
DescribeAt(now, flag, earlier, node, file) ==
    GenerateDetailedVisualDescription(node, file)

DeterminismInit ==
    /\ ExportInit
    /\ ToolsIdle
    /\ LoggerIdle
    /\ AppIdle
    /\ op = "none"
    /\ input \in [node : UNION {TreesOf(n) : n \in 1..2}, file : FileContexts]
    /\ output = <<>>

Tick ==
    /\ clock < MaxClock
    /\ clock' = clock + 1
    /\ UNCHANGED <<exportVars, pureVars, toolVars, loggerVars, appVars>>

RunDescribe ==
    /\ Len(output) < MaxRuns
    /\ op' = "describe"
    /\ output' = Append(output,
          [text |-> DescribeAt(clock, isHTTP, Len(output), input.node, input.file),
           flag |-> isHTTP, now |-> clock, earlier |-> Len(output)])
    /\ UNCHANGED <<input, nonPureVars>>

DeterminismNext ==
    \/ Tick
    \/ CreateServer(Some(TRUE), FALSE)
    \/ RunDescribe

SpecDeterminism == DeterminismInit /\ [][DeterminismNext]_vars

----------------------------------------------------------------------------
(* Claims about list_figma_exports *)

ExportTools == {"get_figma_data_to_file", "generate_visual_description",
                "generate_technical_specification"}

\* the position of the return of invocation i among the events
ReturnOf(i) == CHOOSE k \in 1..Len(events) : events[k] = [call |-> i, ev |-> "done"]

\* the file names a result of list_figma_exports lists
ListedNames(r) == IF Len(r.text) = 3 THEN r.text[2] ELSE {}

\* C17: a list_figma_exports that returns after an export tool has saved a
\* file in the working directory lists that file.
C17_ListShowsEveryExport ==
    \A i, j \in Done :
        /\ calls[i].tool \in ExportTools
        /\ ~calls[i].result.isError
        /\ calls[j].tool = "list_figma_exports"
        /\ ~calls[j].result.isError
        /\ ReturnOf(i) < ReturnOf(j)
        => calls[i].result.text[2] \in ListedNames(calls[j].result)


----------------------------------------------------------------------------
(* The HTTP app (src/unnamed/part_002) and the Lambda handler in front of  *)
(* it (src/unnamed/part_001).  A request is a record of its method, its    *)
(* path, its optional Content-Type and its body: "none", "json" (well      *)
(* formed) or "malformed".  A response is a record of its status, its      *)
(* headers (pairs of name and value), the code and message of its JSON-RPC *)
(* error (0 and the empty message when it has none) and the handler that    *)
(* sent it.                                                                *)

PathMcp == <<"/", "m", "c", "p">>
PathHealth == <<"/", "h", "e", "a", "l", "t", "h">>
ApplicationJson == <<"a", "p", "p", "l", "i", "c", "a", "t", "i", "o", "n", "/", "j", "s", "o", "n">>

CorsHeaders ==
    {<<"Access-Control-Allow-Origin", "*">>,
     <<"Access-Control-Allow-Headers", "Content-Type, Authorization, Mcp-Session-Id">>,
     <<"Access-Control-Allow-Methods", "GET, POST, DELETE, OPTIONS">>}

JsonContentType == <<"Content-Type", "application/json">>

NewResponse == [message |-> <<>>, by |-> "none", status |-> 0, headers |-> {}, code |-> 0]

\* a middleware that sets no header
CorsMiddlewareOff(res) == res

\* app.use((req, res, next) => { res.header(...) x 3; next(); })
CorsMiddleware(res) == [res EXCEPT !.headers = @ \cup CorsHeaders]

\* res.status(status).json(body): the headers set so far are kept
SendJson(res, status, code, message, by) ==
    [res EXCEPT !.status = status, !.headers = @ \cup {JsonContentType},
                !.code = code, !.message = message, !.by = by]

\* res.status(200).end()
SendEmpty(res, by) == [res EXCEPT !.status = 200, !.by = by]

\* Express routing, not strict and not case sensitive
RouteMatches(path, route) ==
    \/ ToLowerCase(path) = route
    \/ ToLowerCase(path) = Append(route, "/")

\* the media type of a Content-Type as the body parser reads it: without
\* parameters, in lower case
MediaType(contentType) ==
    LET i == FirstIndexOf(contentType, ";")
    IN  ToLowerCase(IF i = 0 THEN contentType ELSE SubSeq(contentType, 1, i - 1))

\* express.json(): parses a body whose media type is application/json and
\* passes an error on when the body is malformed
JsonParserFails(req) ==
    /\ req.body = "malformed"
    /\ IsSome(req.contentType)
    /\ MediaType(Get(req.contentType)) = ApplicationJson

\* validateMcpHeaders: whether it answers the request itself
ValidateMcpHeadersRejects(req) ==
    /\ req.method = "POST"
    /\ req.path = PathMcp
    /\ \/ ~TruthyOptStr(req.contentType)
       \/ ~Includes(Get(req.contentType), ApplicationJson)

\* what handling a request comes to: the response, whether the MCP server
\* was reached, whether a transport was created, the Logger.error calls made
Handled(res, reached, transport, errors) ==
    [res |-> res, reached |-> reached, transport |-> transport, errors |-> errors]

\* an error handler that answers a parse error
ErrorHandlerParseError(res) ==
    Handled(SendJson(res, 400, -32700, <<"Parse error">>, "errorHandler"),
            FALSE, FALSE, 1)

\* errorHandler
ErrorHandler(res) ==
    Handled(SendJson(res, 500, -32603, <<"I", "n", "t", "e", "r", "n", "a", "l", " ", "s", "e", "r", "v", "e", "r", " ", "e", "r", "r", "o", "r">>, "errorHandler"),
            FALSE, FALSE, 1)

\* handlePost with McpService.handleRequest; outcome is what the MCP server
\* and its transport do with the request
HandlePost(res, svc, outcome) ==
    IF svc.configError \/ ~svc.mcpServer
    THEN Handled(SendJson(res, 500, -32603, <<"I", "n", "t", "e", "r", "n", "a", "l", " ", "s", "e", "r", "v", "e", "r", " ", "e", "r", "r", "o", "r">>, "handlePost"),
                 FALSE, FALSE, 2)
    ELSE IF outcome.kind \in {"connect throws", "handleRequest throws"}
    THEN Handled(SendJson(res, 500, -32603, <<"I", "n", "t", "e", "r", "n", "a", "l", " ", "s", "e", "r", "v", "e", "r", " ", "e", "r", "r", "o", "r">>, "handlePost"),
                 TRUE, TRUE, 2)
    ELSE Handled([res EXCEPT !.status = outcome.status, !.headers = @ \cup {JsonContentType},
                             !.by = "transport"],
                 TRUE, TRUE, 0)

HandleGet(res) ==
    Handled(SendJson(res, 405, -32601,
                     <<"M", "e", "t", "h", "o", "d", " ", "N", "o", "t", " ", "A", "l", "l", "o", "w", "e", "d", " ", "-", " ", "S", "S", "E", " ", "s", "t", "r", "e", "a", "m", "i", "n", "g", " ", "n", "o", "t", " ", "i", "m", "p", "l", "e", "m", "e", "n", "t", "e", "d", " ", "i", "n", " ", "s", "t", "a", "t", "e", "l", "e", "s", "s", " ", "m", "o", "d", "e">>,
                     "handleGet"),
            FALSE, FALSE, 0)

HandleDelete(res) ==
    Handled(SendJson(res, 405, -32601,
                     <<"M", "e", "t", "h", "o", "d", " ", "N", "o", "t", " ", "A", "l", "l", "o", "w", "e", "d", " ", "-", " ", "N", "o", " ", "s", "e", "s", "s", "i", "o", "n", "s", " ", "t", "o", " ", "t", "e", "r", "m", "i", "n", "a", "t", "e", " ", "i", "n", " ", "s", "t", "a", "t", "e", "l", "e", "s", "s", " ", "m", "o", "d", "e">>,
                     "handleDelete"),
            FALSE, FALSE, 0)

HandleOptions(res) == Handled(SendEmpty(res, "handleOptions"), FALSE, FALSE, 0)

\* the /health route
Health(res) == Handled(SendJson(res, 200, 0, <<>>, "health"), FALSE, FALSE, 0)

\* no route matched: the 404 of Express, which keeps the headers set so far
NotFound(res) == Handled([res EXCEPT !.status = 404, !.by = "express"], FALSE, FALSE, 0)

\* the app of createLambdaApp: its middlewares and routes in their order
App(req, svc, outcome) ==
    LET res == CorsMiddleware(NewResponse)
    IN  IF req.method = "GET" /\ RouteMatches(req.path, PathHealth) THEN Health(res)
        ELSE IF JsonParserFails(req) THEN ErrorHandler(res)
        ELSE IF ValidateMcpHeadersRejects(req)
             THEN Handled(SendJson(res, 400, -32600,
                                   <<"I", "n", "v", "a", "l", "i", "d", " ", "r", "e", "q", "u", "e", "s", "t", " ", "-", " ", "C", "o", "n", "t", "e", "n", "t", "-", "T", "y", "p", "e", " ", "m", "u", "s", "t", " ", "b", "e", " ", "a", "p", "p", "l", "i", "c", "a", "t", "i", "o", "n", "/", "j", "s", "o", "n">>,
                                   "validateMcpHeaders"),
                          FALSE, FALSE, 0)
        ELSE IF ~RouteMatches(req.path, PathMcp) THEN NotFound(res)
        ELSE IF req.method = "POST" THEN HandlePost(res, svc, outcome)
        ELSE IF req.method = "GET" THEN HandleGet(res)
        ELSE IF req.method = "DELETE" THEN HandleDelete(res)
        ELSE IF req.method = "OPTIONS" THEN HandleOptions(res)
        ELSE NotFound(res)

\* the two 500 responses of the Lambda handler, which carry their own headers
LambdaError(code, message) ==
    Handled([message |-> message, by |-> "lambda", status |-> 500,
             headers |-> CorsHeaders \cup {JsonContentType}, code |-> code],
            FALSE, FALSE, 0)

\* handler(event, context) of the Lambda function
LambdaHandler(req, svc, outcome) ==
    IF svc.appError
    THEN LambdaError(0, <<>>)
    ELSE IF outcome.kind = "serverless throws"
    THEN LambdaError(-32603, <<"I", "n", "t", "e", "r", "n", "a", "l", " ", "s", "e", "r", "v", "e", "r", " ", "e", "r", "r", "o", "r">>)
    ELSE App(req, svc, outcome)


MaxExchanges == 2

ContentTypes ==
    {None, Some(ApplicationJson), Some(<<"a", "p", "p", "l", "i", "c", "a", "t", "i", "o", "n", "/", "j", "s", "o", "n", ";", " ", "c", "h", "a", "r", "s", "e", "t", "=", "u", "t", "f", "-", "8">>),
     Some(<<"t", "e", "x", "t", "/", "p", "l", "a", "i", "n">>), Some(<<"A", "p", "p", "l", "i", "c", "a", "t", "i", "o", "n", "/", "J", "S", "O", "N">>)}

Request(method, path, contentType, body) ==
    [path |-> path, contentType |-> contentType, body |-> body, method |-> method]

\* the requests sent: every Content-Type and body on POST /mcp, and a few
\* on the other methods and paths
Requests ==
    {Request("POST", PathMcp, t, b) : t \in ContentTypes, b \in {"json", "malformed"}}
    \cup {Request(m, PathMcp, None, "none") : m \in {"GET", "DELETE", "OPTIONS", "PUT"}}
    \cup {Request(m, PathMcp, Some(ApplicationJson), "malformed") : m \in {"GET", "DELETE"}}
    \cup {Request(m, <<"/", "m", "c", "p", "/">>, None, "none") : m \in {"GET", "POST"}}
    \cup {Request("GET", p, None, "none") : p \in {PathHealth, <<"/", "o", "t", "h", "e", "r">>}}

TransportOutcome(kind, status) == [status |-> status, kind |-> kind]

\* what the MCP server, its transport and serverless-http may do
Outcomes ==
    {TransportOutcome("responds", s) : s \in {200, 406}}
    \cup {TransportOutcome(k, 0) : k \in {"connect throws", "handleRequest throws",
                                  "serverless throws"}}

\* getServerConfig(false): throws when neither FIGMA_API_KEY nor
\* FIGMA_OAUTH_TOKEN is set
GetServerConfigThrows(credential) == ~credential

\* the module load: new McpService() and createLambdaApp(); credential tells
\* whether a Figma credential is set, appThrows whether createLambdaApp throws
LoadApp(credential, appThrows) ==
    /\ ~mcpService.loaded
    /\ mcpService' = [mcpServer |-> ~GetServerConfigThrows(credential),
                      configError |-> GetServerConfigThrows(credential),
                      appError |-> appThrows, loaded |-> TRUE,
                      credential |-> credential]
    /\ IF GetServerConfigThrows(credential)
       THEN UNCHANGED <<isHTTP, servers>>
       ELSE /\ isHTTP' = IsHTTPOption(Some(TRUE))
            /\ servers' = Append(servers, Some(TRUE))
    /\ UNCHANGED <<logged, transports, exchanges, clock, exportVars, pureVars, toolVars>>

\* one request answered by the Lambda handler and the app behind it
Exchange(req, outcome) ==
    /\ mcpService.loaded
    /\ Len(exchanges) < MaxExchanges
    /\ LET h == LambdaHandler(req, mcpService, outcome)
       IN  /\ exchanges' = Append(exchanges, [req |-> req, res |-> h.res,
                                              reached |-> h.reached])
           /\ transports' = IF h.transport
                            THEN Append(transports, Len(exchanges) + 1)
                            ELSE transports
           /\ logged' = logged \o [k \in 1..h.errors |->
                                      [level |-> "ERROR", flag |-> isHTTP,
                                       stream |-> ErrorStream]]
    /\ UNCHANGED <<mcpService, isHTTP, servers, clock, exportVars, pureVars, toolVars>>

AppInit == ExportInit /\ PureIdle /\ ToolsIdle /\ LoggerIdle /\ AppIdle

AppNext ==
    \/ \E credential \in BOOLEAN, appThrows \in BOOLEAN : LoadApp(credential, appThrows)
    \/ \E req \in Requests, outcome \in Outcomes : Exchange(req, outcome)

SpecApp == AppInit /\ [][AppNext]_vars


\* the exchanges answered by the app itself
AppExchanges == {i \in 1..Len(exchanges) : exchanges[i].res.by # "lambda"}

\* a transport was created for exchange i
TransportCreated(i) == \E k \in 1..Len(transports) : transports[k] = i

\* a POST /mcp whose Content-Type is missing or does not contain application/json
BadContentTypePost(req) ==
    /\ req.method = "POST"
    /\ req.path = PathMcp
    /\ \/ ~IsSome(req.contentType)
       \/ ~Includes(Get(req.contentType), ApplicationJson)

\* C18: every POST /mcp whose Content-Type header is missing or does not
\* contain 'application/json' is answered by the app with status 400 and the
\* JSON-RPC error code -32600, and never reaches the MCP server: no transport
\* is created for it.
C18_BadContentTypeIs400 ==
    \A i \in AppExchanges :
        BadContentTypePost(exchanges[i].req) =>
            /\ exchanges[i].res.status = 400
            /\ exchanges[i].res.code = -32600
            /\ ~exchanges[i].reached
            /\ ~TransportCreated(i)

MethodNotAllowed == <<"M", "e", "t", "h", "o", "d", " ", "N", "o", "t", " ", "A", "l", "l", "o", "w", "e", "d">>

\* C19: every GET /mcp and every DELETE /mcp is answered by the app with
\* status 405 and the JSON-RPC error code -32601, with a message that contains
\* 'Method Not Allowed', whatever exchanges preceded it, and never reaches the
\* MCP server.
C19_GetAndDeleteAre405 ==
    \A i \in AppExchanges :
        (exchanges[i].req.method \in {"GET", "DELETE"} /\ exchanges[i].req.path = PathMcp) =>
            /\ exchanges[i].res.status = 405
            /\ exchanges[i].res.code = -32601
            /\ Includes(exchanges[i].res.message, MethodNotAllowed)
            /\ ~exchanges[i].reached
            /\ ~TransportCreated(i)

\* C20: every response, of the app and of the Lambda handler in front of it,
\* carries the three CORS headers with their values.
C20_EveryResponseCarriesCors ==
    \A i \in 1..Len(exchanges) : CorsHeaders \subseteq exchanges[i].res.headers

\* responses of the health route, the preflight, the validator, the 405
\* handlers, the error handler, handlePost, the transport and the Lambda
\* handler have all been sent
C20_Witness ==
    /\ Len(exchanges) = MaxExchanges
    /\ exchanges[1].res.by \in {"health", "handleOptions", "validateMcpHeaders",
                                "handleGet", "errorHandler", "express"}
    /\ exchanges[2].res.by \in {"transport", "handlePost", "lambda"}
    /\ exchanges[2].res.status \in {200, 500}


----------------------------------------------------------------------------
(* download_figma_images: fan-out and fan-in                               *)

\* both fetch-service operations have been issued
BothIssued == fillP.state # "none" /\ renderP.state # "none"

\* C21: in every download_figma_images invocation both partition operations
\* are issued before the handler waits for either of them, and the handler
\* produces its result only after both operations have completed.
C21_FanOutFanIn ==
    /\ pc = "await" => BothIssued
    /\ (syncThrow = "none" /\ result.settled # "pending") =>
           (SettledPromise(fillP) /\ SettledPromise(renderP))


----------------------------------------------------------------------------
(* The descriptor applied to single nodes that carry geometry fields or    *)
(* fills.  A fill is a record of its type, its optional colour and its     *)
(* optional opacity, a numerator over ChannelDen.                          *)

Box == [x |-> 0, y |-> 10, width |-> 100, height |-> 40]

Paddings == {None, Some(0), Some(8)}

\* a node with geometry fields, each present or absent on its own
GeometryNodes ==
    {[BareNode(None, TypeFRAME, None) EXCEPT
         !.absoluteBoundingBox = g.box, !.size = g.size,
         !.layoutAlign = g.align, !.layoutGrow = g.grow,
         !.paddingLeft = g.left, !.paddingTop = g.top,
         !.paddingRight = g.right, !.paddingBottom = g.bottom,
         !.itemSpacing = g.spacing] :
        g \in [left : Paddings, size : {None, Some(<<100, 40>>)},
               box : {None, Some(Box)},
               align : {None, Some(<<"S", "T", "R", "E", "T", "C", "H">>)},
               grow : {None, Some(0), Some(1)},
               top : Paddings, right : {None, Some(8)}, bottom : {None, Some(0)},
               spacing : {None, Some(0), Some(4)}]}

Opacities == {None} \cup {Some(k) : k \in 0..ChannelDen}

Fills ==
    [type : {"SOLID"}, opacity : Opacities,
     color : {Some([b |-> 0, r |-> ChannelDen, g |-> 0])}]
    \cup [type : {"GRADIENT_LINEAR"}, opacity : {None, Some(0)}, color : {None}]

\* a node with one or two fills
FillNodes ==
    {[BareNode(None, TypeRECTANGLE, None) EXCEPT !.fills = Some(f)] :
        f \in {<<a>> : a \in Fills}
              \cup {<<a, b>> : a \in Fills, b \in {c \in Fills : c.opacity \in {None, Some(0), Some(7)}}}}

AppearanceInit ==
    /\ ExportInit
    /\ ToolsIdle
    /\ LoggerIdle
    /\ AppIdle
    /\ op = "none"
    /\ input \in [node : GeometryNodes \cup FillNodes, file : FileContexts]
    /\ output = <<>>

AppearanceNext == ApplyDescribe

SpecAppearance == AppearanceInit /\ [][AppearanceNext]_vars

\* the lines of a kind in a description
LinesOf(lines, k) == SelectSeq(lines, LAMBDA l : l.k = k)

SomePadding(n) ==
    \E p \in {n.paddingLeft, n.paddingTop, n.paddingRight, n.paddingBottom} :
        IsSome(p) /\ Get(p) # 0

\* C22: the block of a node holds the alignment line if and only if
\* layoutAlign is present, the growth line if and only if layoutGrow is
\* defined, the padding line if and only if one of the four padding values is
\* not zero, and the item-spacing line if and only if itemSpacing is defined.
C22_GeometryLinesByOwnField ==
    op = "describe" =>
        /\ LinesOf(output, "alignment") # <<>> <=> IsSome(input.node.layoutAlign)
        /\ LinesOf(output, "growth") # <<>> <=> IsSome(input.node.layoutGrow)
        /\ LinesOf(output, "padding") # <<>> <=> SomePadding(input.node)
        /\ LinesOf(output, "itemSpacing") # <<>> <=> IsSome(input.node.itemSpacing)


\* the indices of the SOLID fills of a node
SolidFills(n) == {i \in 1..Len(Get(n.fills)) : Get(n.fills)[i].type = "SOLID"}

\* round(opacity * 100), and 100 for an absent opacity
RoundedPercent(opacity) ==
    IF IsSome(opacity) THEN RoundDiv(Get(opacity) * 100, ChannelDen) ELSE 100

\* C23: every SOLID fill of a node has exactly one line under Colors, which
\* reports round(opacity * 100) percent for every opacity from 0 to 1 and 100
\* percent only by default, when the opacity is absent; the other fills have
\* no line.
C23_OneLinePerSolidFill ==
    (op = "describe" /\ IsSome(input.node.fills)) =>
        LET fills == Get(input.node.fills)
            lines == LinesOf(output, "fill")
        IN  /\ Len(lines) = Cardinality(SolidFills(input.node))
            /\ \A i \in SolidFills(input.node) :
                  \E k \in 1..Len(lines) :
                      /\ lines[k].v[1] = i
                      /\ lines[k].v[3] = RoundedPercent(fills[i].opacity)


----------------------------------------------------------------------------
(* Claims about the child blocks of the descriptor walk *)

RECURSIVE ChildCounts(_, _)
RECURSIVE ChildCountsForest(_, _)
\* the nodes of a tree in pre-order, each with its depth and its number of
\* children
ChildCounts(n, depth) ==
    <<[depth |-> depth, kids |-> IF IsSome(n.children) THEN Len(Get(n.children)) ELSE 0]>>
    \o (IF IsSome(n.children) THEN ChildCountsForest(Get(n.children), depth + 1) ELSE <<>>)
ChildCountsForest(f, depth) ==
    IF f = <<>> THEN <<>>
    ELSE ChildCounts(Head(f), depth) \o ChildCountsForest(Tail(f), depth)

HasKids(c) == c.kids >= 1

\* the lines of the walk: the description without the global context
WalkLines(lines) ==
    SubSeq(lines, 1, (CHOOSE i \in 1..Len(lines) : lines[i].k = "globalContext") - 1)

\* the number of elements of a sequence that satisfy a test
CountOf(s, Test(_)) == Cardinality({i \in 1..Len(s) : Test(s[i])})

\* C24: a node with k >= 1 children has one child-count header stating k,
\* followed by its k child blocks one level deeper with k - 1 dividers, one
\* between each two consecutive siblings and none after the last; a node
\* without children has neither a count header nor a divider.
C24_ChildBlocksAndDividers ==
    op = "describe" =>
        LET walk == WalkLines(output)
            nodes == ChildCounts(input.node, 0)
            parents == SelectSeq(nodes, HasKids)
            counts == LinesOf(walk, "children")
            depths == 0..MaxNodes
        IN  /\ Len(counts) = Len(parents)
            /\ \A i \in 1..Len(counts) :
                  /\ counts[i].level = parents[i].depth
                  /\ counts[i].v = <<parents[i].kids>>
            /\ \A d \in depths :
                  CountOf(walk, LAMBDA l : l.k = "divider" /\ l.level = d)
                      = CountOf(nodes, LAMBDA c : c.depth = d + 1)
                        - CountOf(nodes, LAMBDA c : c.depth = d /\ c.kids >= 1)
            /\ \A i \in 1..Len(walk) :
                  walk[i].k \in {"children", "divider"} =>
                      /\ i < Len(walk)
                      /\ walk[i + 1].k = "header"
                      /\ walk[i + 1].level = walk[i].level + 1
            /\ \A i \in 1..Len(walk) :
                  walk[i].k = "divider" =>
                      /\ walk[i - 1].k = "blank"
                      /\ walk[i - 1].level > walk[i].level
                      /\ \E j \in 1..(i - 1) :
                            walk[j].k = "children" /\ walk[j].level = walk[i].level

\* a root with two children, the first of which has two children of its own:
\* one divider at each of the two levels
C24_Witness ==
    /\ op = "describe"
    /\ CountNodes(input.node) = 5
    /\ Len(Get(input.node.children)) = 2
    /\ IsSome(Get(input.node.children)[1].children)
    /\ Len(Get(Get(input.node.children)[1].children)) = 2
    /\ Len(LinesOf(output, "divider")) = 2
    /\ Len(LinesOf(output, "children")) = 2


----------------------------------------------------------------------------
(* generateStructureTree.  The tree is a sequence of lines; a line is a    *)
(* record of the number of spaces of its indentation, and of the name and  *)
(* the type printed in it.                                                 *)

MaxLevel == 2

\* `\n${indent}├── ${child.name || "Unnamed"} (${child.type})`
TreeLine(level, child) ==
    [name |-> StrOr(child.name, <<"Unnamed">>), type |-> child.type, indent |-> 2 * level]

RECURSIVE GenerateStructureTree(_, _)
RECURSIVE StructureLines(_, _, _)

\* a walk that lists a child after its descendants
StructureLinesChildLast(children, i, level) ==
    IF i > Len(children) THEN <<>>
    ELSE GenerateStructureTree(children[i], level + 1)
         \o <<TreeLine(level, children[i])>>
         \o StructureLines(children, i + 1, level)

\* node.children.forEach((child) => ...), from the child at index i
StructureLines(children, i, level) ==
    IF i > Len(children) THEN <<>>
    ELSE <<TreeLine(level, children[i])>>
         \o GenerateStructureTree(children[i], level + 1)
         \o StructureLines(children, i + 1, level)

\* generateStructureTree(node, level)
GenerateStructureTree(node, level) ==
    IF NonEmptyArray(node.children)
    THEN StructureLines(Get(node.children), 1, level)
    ELSE <<>>

StructureInit ==
    /\ ExportInit
    /\ ToolsIdle
    /\ LoggerIdle
    /\ AppIdle
    /\ op = "none"
    /\ input \in [node : Trees, level : 0..MaxLevel]
    /\ output = <<>>

ApplyStructureTree ==
    /\ op = "none"
    /\ op' = "structureTree"
    /\ output' = GenerateStructureTree(input.node, input.level)
    /\ UNCHANGED <<input, nonPureVars>>

StructureNext == ApplyStructureTree

SpecStructure == StructureInit /\ [][StructureNext]_vars

\* C25: generateStructureTree(node, level) yields one line per descendant of
\* the node and none for the node itself, in depth-first pre-order; the line
\* of a descendant is indented by two spaces per level of the call made for
\* its parent and shows its name, or 'Unnamed', and its type; a node without
\* children yields nothing.
C25_StructureTreeLines ==
    op = "structureTree" =>
        LET below == Tail(PreOrder(input.node, 0))
        IN  /\ Len(output) = CountNodes(input.node) - 1
            /\ Len(output) = Len(below)
            /\ \A i \in 1..Len(output) :
                  /\ output[i].indent = 2 * (input.level + below[i].depth - 1)
                  /\ output[i].name = (IF IsSome(below[i].name) THEN Get(below[i].name)
                                       ELSE <<"Unnamed">>)
                  /\ output[i].type = below[i].type
            /\ ~IsSome(input.node.children) => output = <<>>

\* the handler's call, at level 1, on a root with two children, the first
\* of which has a child of its own
C25_Witness ==
    /\ op = "structureTree"
    /\ input.level = 1
    /\ CountNodes(input.node) = 4
    /\ Len(Get(input.node.children)) = 2
    /\ IsSome(Get(input.node.children)[1].children)
    /\ Get(input.node.children)[1].type # Get(input.node.children)[2].type
    /\ Len(output) = 3
    /\ output[2].indent = 4


----------------------------------------------------------------------------
(* Claims about the two copies of inferElementPurpose together *)

\* the labels of the keyword and type rules: that of the descriptor's copy
\* with that of the technical specification's copy
LabelPairs ==
    {<<"Text element", "Text element">>,
     <<"Button", "Button component">>,
     <<"Card or container", "Card or container component">>,
     <<"Header", "Header section">>,
     <<"Footer", "Footer section">>,
     <<"Navigation", "Navigation component">>,
     <<"Reusable component", "Reusable component instance">>,
     <<"Icon", "Icon element">>,
     <<"Image", "Image asset">>,
     <<"Input field", "Input field component">>}

\* both labels are the fallback, or they are the two labels of one rule
SameRule(node, descriptor, techspec) ==
    \/ /\ descriptor = Fallback(node, " element")
       /\ techspec = Fallback(node, " component")
    \/ /\ Len(descriptor) = 1
       /\ Len(techspec) = 1
       /\ <<descriptor[1], techspec[1]>> \in LabelPairs

\* the label of each copy for the input, one of them the output
DescriptorLabel == IF op = "descriptor" THEN output ELSE InferElementPurpose(input)
TechSpecLabel == IF op = "techspec" THEN output ELSE InferElementPurposeSpec(input)

\* C26 as stated: the two copies of inferElementPurpose select the same rule
\* for every (type, name): both return their fallback label, or both return
\* the label of the same keyword or type rule.
C26_CopiesSelectSameRule ==
    op # "none" => SameRule(input, DescriptorLabel, TechSpecLabel)

\* C26 amended: the two copies select the same rule for every (type, name),
\* except for a FRAME node whose name holds none of header, footer, nav,
\* icon, image, input: there the descriptor's copy returns its fallback
\* 'frame element' and the technical specification's copy 'Layout container'.
C26_CopiesSelectSameRuleButFrame ==
    op # "none" =>
        IF input.type = TypeFRAME /\ FirstRule(input) = 7
        THEN /\ DescriptorLabel = Fallback(input, " element")
             /\ TechSpecLabel = <<"Layout container">>
        ELSE SameRule(input, DescriptorLabel, TechSpecLabel)

\* the technical specification's copy applied to a FRAME named 'Login CARD'
C26_Witness ==
    /\ op = "techspec"
    /\ input = [type |-> TypeFRAME, name |-> Some(<<"L", "o", "g", "i", "n", " ", "C", "A", "R", "D">>)]
    /\ output = <<"Layout container">>
    /\ InferElementPurpose(input) = <<"f", "r", "a", "m", "e", " element">>


----------------------------------------------------------------------------
(* Claims about overlapping invocations of the document-writing tools *)

DocumentTools == {"generate_visual_description", "generate_technical_specification"}

\* invocation i has returned its success shape after saving its document as name
Saved(i, name) ==
    /\ calls[i].tool \in DocumentTools
    /\ calls[i].pc = "done"
    /\ ~calls[i].result.isError
    /\ calls[i].result.text[2] = name

\* the position of the return of invocation i among the events
DoneAt(i) == CHOOSE k \in 1..Len(events) : events[k] = [call |-> i, ev |-> "done"]

\* the invocation that saved name and whose fetch completed last
LastSaver(name) ==
    CHOOSE i \in 1..Len(calls) :
        /\ Saved(i, name)
        /\ \A j \in 1..Len(calls) : Saved(j, name) => DoneAt(j) <= DoneAt(i)

----------------------------------------------------------------------------
(* Claims about .gitignore *)

\* invocation i of get_figma_data_to_file returns its success shape in this step
ToFileSucceeds(i) ==
    /\ calls[i].tool = "get_figma_data_to_file"
    /\ calls[i].pc = "await"
    /\ calls'[i].pc = "done"
    /\ ~calls'[i].result.isError

----------------------------------------------------------------------------
(* Claims about the Lambda handler *)

InternalError(res) == res.status = 500 /\ res.code = -32603

\* the parts of C29 that do not depend on the request: every invocation is
\* answered; after a failed app creation the answer is the 500 of the Lambda
\* handler and the app is not invoked; an exception while serving the event
\* is answered 500 with code -32603
LambdaAnswers(i) ==
    LET x == exchanges[i]
    IN  /\ x.res.status # 0
        /\ mcpService.appError =>
              /\ x.res.status = 500
              /\ x.res.by = "lambda"
              /\ x.res.code = 0
              /\ ~x.reached
              /\ ~TransportCreated(i)
        /\ (~mcpService.appError /\ x.res.by \in {"lambda", "errorHandler", "handlePost"}) =>
              InternalError(x.res)

=============================================================================
